---- MODULE Spec2Model ----
(***************************************************************************)
(* Alarm button: the alarm state service (internal/service/server), its    *)
(* gRPC handler (internal/api/grpc/alarm), the file repository             *)
(* (internal/repository/state) and the domain types (internal/domain).     *)
(*                                                                         *)
(* Pointers are addresses into two heaps (states, actors), so that         *)
(* aliasing between the server's state and what callers hold is visible.   *)
(* A time.Time is a value [day, sod, nsec, mono, loc]: day is the day      *)
(* number since 0001-01-01, sod the second of that day, mono whether a     *)
(* monotonic clock reading is attached, loc the location.                  *)
(***************************************************************************)
EXTENDS Integers, Sequences, FiniteSets, TLC

\* ------------------------------------------------------------------ bounds
\* Highest reading of the wall clock.
MaxClock == 2
\* Number of State addresses and of Actor addresses in the heaps.
MaxStates == 4
MaxActors == 6
\* Failures of the network, the disk and the server in one behaviour.
MaxFaults == 2
\* The histories of the clients count attempts up to this number.
MaxAttempts == 3

\* --------------------------------------------------- constants of the code
\* Days between 0001-01-01 and 1970-01-01 (unixToInternal, in days).
UnixEpochDay == 719162
\* Day number (Unix) of 9999-12-31, the last day protojson accepts.
MaxTimestampDay == 2932896
NanosPerSecond == 1000000000
\* Day on which the modelled server runs (2024-01-01).
NowDay == UnixEpochDay + 19723

\* The nil pointer or unset message field, and the nil error.
NULL == [nil |-> TRUE]
NoErr == "nil"
\* A failed encoding or decoding.
CodecError == [kind |-> "error"]
Procs == {"p1", "p2"}

\* ------------------------------------------------------------ domain types
ZeroTime == [day |-> 0, sod |-> 0, nsec |-> 0, mono |-> FALSE, loc |-> "UTC"]

\* time.Time.IsZero: the instant is January 1, year 1, 00:00:00 UTC.
IsZero(t) == t.day = 0 /\ t.sod = 0 /\ t.nsec = 0

\* Two times denote the same second.
SameSecond(t, u) == t.day = u.day /\ t.sod = u.sod

\* Two times denote the same instant (time.Time.Equal).
SameInstant(t, u) == SameSecond(t, u) /\ t.nsec = u.nsec

\* domain.Actor by value.
MkActor(h, u) == [Hostname |-> h, Username |-> u]

\* domain.State by value: LastActor is an Actor value or NULL.
MkState(ts, a, e) == [Timestamp |-> ts, LastActor |-> a, IsEnabled |-> e]

\* --------------------------------------------- repository: State <-> JSON
\* timestamppb.New: seconds since the Unix epoch (as day and second of day)
\* and nanoseconds; the monotonic reading and the location are not kept.
TimestampNew(t) ==
    [days |-> t.day - UnixEpochDay, sod |-> t.sod, nanos |-> t.nsec]

\* Timestamp.AsTime: time.Unix(seconds, nanos).UTC().
AsTime(ts) ==
    [day |-> ts.days + UnixEpochDay, sod |-> ts.sod, nsec |-> ts.nanos,
     mono |-> FALSE, loc |-> "UTC"]

\* toProto as it would be if is_enabled were not copied.
toProtoNoEnabled(state) ==
    [Timestamp |-> IF ~IsZero(state.Timestamp)
                   THEN TimestampNew(state.Timestamp) ELSE NULL,
     LastActor |-> IF state.LastActor # NULL
                   THEN [Hostname |-> state.LastActor.Hostname,
                         Username |-> state.LastActor.Username]
                   ELSE NULL,
     IsEnabled |-> FALSE]

\* toProto: domain State (by value) to pb.AlarmStateResponse.
toProto(state) ==
    [Timestamp |-> IF ~IsZero(state.Timestamp)
                   THEN TimestampNew(state.Timestamp) ELSE NULL,
     LastActor |-> IF state.LastActor # NULL
                   THEN [Hostname |-> state.LastActor.Hostname,
                         Username |-> state.LastActor.Username]
                   ELSE NULL,
     IsEnabled |-> state.IsEnabled]

\* fromProto as it would be if an actor without hostname counted as absent.
fromProtoEmptyActorNil(protoState) ==
    [Timestamp |-> IF protoState.Timestamp # NULL
                   THEN AsTime(protoState.Timestamp) ELSE ZeroTime,
     LastActor |-> IF protoState.LastActor # NULL /\ protoState.LastActor.Hostname # ""
                   THEN [Hostname |-> protoState.LastActor.Hostname,
                         Username |-> protoState.LastActor.Username]
                   ELSE NULL,
     IsEnabled |-> protoState.IsEnabled]

\* fromProto: pb.AlarmStateResponse to domain State (by value).
fromProto(protoState) ==
    [Timestamp |-> IF protoState.Timestamp # NULL
                   THEN AsTime(protoState.Timestamp) ELSE ZeroTime,
     LastActor |-> IF protoState.LastActor # NULL
                   THEN [Hostname |-> protoState.LastActor.Hostname,
                         Username |-> protoState.LastActor.Username]
                   ELSE NULL,
     IsEnabled |-> protoState.IsEnabled]

\* protojson accepts timestamps from 0001-01-01T00:00:00Z to
\* 9999-12-31T23:59:59Z only.
TimestampInRange(ts) ==
    /\ ts.days >= 0 - UnixEpochDay
    /\ ts.days <= MaxTimestampDay
    /\ ts.nanos >= 0 /\ ts.nanos < NanosPerSecond

\* Number of fractional digits protojson writes: the nine digits with the
\* suffixes "000", "000", ".000" trimmed.
FracDigits(nanos) ==
    IF nanos = 0 THEN 0
    ELSE IF nanos % 1000000 = 0 THEN 3
    ELSE IF nanos % 1000 = 0 THEN 6
    ELSE 9

Pow10(n) ==
    CASE n = 0 -> 1 [] n = 3 -> 1000 [] n = 6 -> 1000000 [] n = 9 -> 1000000000

\* The RFC 3339 string of a timestamp: date, time of day, and the fraction
\* as `digits` decimal digits of value `frac`.
FormatTimestamp(ts) ==
    LET d == FracDigits(ts.nanos)
    IN [date |-> ts.days, tod |-> ts.sod, digits |-> d,
        frac |-> ts.nanos \div Pow10(9 - d)]

\* time.Parse of that string back into a timestamp.
ParseTimestamp(js) ==
    [days |-> js.date, sod |-> js.tod, nanos |-> js.frac * Pow10(9 - js.digits)]

\* protojson.Marshal with EmitUnpopulated: unset message fields are written
\* as null. The result is CodecError for a timestamp out of range.
Marshal(protoState) ==
    IF protoState.Timestamp # NULL /\ ~TimestampInRange(protoState.Timestamp)
    THEN CodecError
    ELSE [timestamp |-> IF protoState.Timestamp # NULL
                        THEN FormatTimestamp(protoState.Timestamp) ELSE NULL,
          lastActor |-> IF protoState.LastActor # NULL
                        THEN [hostname |-> protoState.LastActor.Hostname,
                              username |-> protoState.LastActor.Username]
                        ELSE NULL,
          isEnabled |-> protoState.IsEnabled]

\* File contents that are not a JSON document of the message.
Garbage == [kind |-> "garbage"]

\* protojson.Unmarshal: CodecError for contents that do not decode.
Unmarshal(contents) ==
    IF contents = Garbage THEN CodecError
    ELSE LET ts == IF contents.timestamp # NULL
                   THEN ParseTimestamp(contents.timestamp) ELSE NULL
         IN IF ts # NULL /\ ~TimestampInRange(ts) THEN CodecError
            ELSE [Timestamp |-> ts,
                  LastActor |-> IF contents.lastActor # NULL
                                THEN [Hostname |-> contents.lastActor.hostname,
                                      Username |-> contents.lastActor.username]
                                ELSE NULL,
                  IsEnabled |-> contents.isEnabled]

\* The file at the repository's path: absent, present but unreadable, or
\* present with contents.
Missing == [kind |-> "missing"]
Unreadable == [kind |-> "unreadable"]

ErrNotFound == "ErrNotFound"
ErrRead == "read state file"
ErrDecode == "decode state file"
ErrEncode == "encode state"
ErrWrite == "write state file"

\* os.ReadFile on the file f: [contents, err]; err is the errno or NoErr.
ReadFile(f) ==
    IF f = Missing THEN [contents |-> NULL, err |-> "ENOENT"]
    ELSE IF f = Unreadable THEN [contents |-> NULL, err |-> "EACCES"]
    ELSE [contents |-> f, err |-> NoErr]

\* IsNotExist as it would be if every read error counted as a missing file.
IsNotExistAnyError(err) == err # NoErr

\* errors.Is(err, os.ErrNotExist).
IsNotExist(err) == err = "ENOENT"

\* FileRepository.Load on the file f: [state, err].
Load(f) ==
    LET rd == ReadFile(f)
    IN IF rd.err # NoErr
       THEN IF IsNotExist(rd.err)
            THEN [state |-> NULL, err |-> ErrNotFound]
            ELSE [state |-> NULL, err |-> ErrRead]
       ELSE LET protoState == Unmarshal(rd.contents)
            IN IF protoState = CodecError
               THEN [state |-> NULL, err |-> ErrDecode]
               ELSE [state |-> fromProto(protoState), err |-> NoErr]

\* What os.WriteFile may leave behind when it fails on file f with data:
\* the file untouched (open failed), truncated or partly written (write
\* failed), or fully written (close failed).
FailedWrites(f, data) == {f, Garbage, data}

\* FileRepository.Save of a State (by value) on file f; writeOk says whether
\* os.WriteFile succeeds. The set of possible [file, err] outcomes.
Save(f, state, writeOk) ==
    LET data == Marshal(toProto(state))
    IN IF data = CodecError THEN {[file |-> f, err |-> ErrEncode]}
       ELSE IF writeOk THEN {[file |-> data, err |-> NoErr]}
       ELSE {[file |-> g, err |-> ErrWrite] : g \in FailedWrites(f, data)}

\* ------------------------------------------------------------------ state
VARIABLES
    srv,      \* server process: "stopped", "running" or "failed" (Run returned an error)
    s_state,  \* service.state: address of the current State, 0 when there is none
    states,   \* heap of domain.State objects, by address
    actors,   \* heap of domain.Actor objects, by address
    mu,       \* service.mu: [writer, readers]
    file,     \* the state file on disk
    clock,    \* reading of the wall clock
    pc,       \* per call in flight: where it is
    req,      \* per call: the request being served
    actor,    \* per call: address of the domain Actor passed to the service
    result,   \* per call: address of the State the service returned
    ret,      \* per call: [state, err] as returned by the service
    resp,     \* per call: [code, msg] answered to the RPC caller
    hist,     \* history: the State installed at startup, the last write and its outcome
    fresh,    \* per call: no write has happened since the State it holds was read
    after,    \* per call: another SetAlarmState persisted and returned while this one waited
    r_file,   \* repository alone: the file at its path
    r_op,     \* repository alone: the last operation, "none", "save" or "load"
    r_want,   \* repository alone: the State of the last Save if it succeeded
    r_res,    \* repository alone: [state, err] of the last operation
    b_opts,   \* button client: client.Options, [DesiredState, Debug]
    b_pc,     \* button client: where client.Run is
    b_ctx,    \* button client: its context, "live" or "canceled"
    b_tick,   \* button client: a tick waits in ticker.C
    b_resp,   \* button client: the answer of the RPC in flight, once the server has sent it
    b_ret,    \* button client: what client.Run returned
    b_log,    \* button client, history: attempts, ticks taken, shutdowns, confirmation
    k_debug,  \* checker: checker.Options.Debug
    k_pc,     \* checker: where checker.Run is
    k_ctx,    \* checker: its context, "live" or "canceled"
    k_tick,   \* checker: a tick waits in ticker.C
    k_resp,   \* checker: the answer of the RPC in flight, once the server has sent it
    k_ret,    \* checker: what checker.Run returned
    k_log,    \* checker, history: failed polls, shutdowns, what the polls saw
    faults,   \* failures of network, disk and server so far
    c_cfg,    \* configuration: the config.Config at hand
    c_flag,   \* configuration: the --state-file flag of alarm-server, [given, value]
    c_res,    \* configuration: what config.Validate returned, "none" before
    c_repo,   \* configuration: the repository server.Run builds, [path]
    u_marker, \* update: the marker file, "none", "fresh" or "stale"
    u_local,  \* update: the files of the installation directory
    u_remote, \* update: the update folder of the server, [desc, blobs]
    u_run,    \* update: each updater process, where it is and what it holds
    p_run,    \* update: the packager process
    p_out     \* update: the manifest file the packager wrote

svcVars == <<srv, s_state, states, actors, mu, file, clock, pc, req, actor,
             result, ret, resp, hist, fresh, after>>
repoVars == <<r_file, r_op, r_want, r_res>>
buttonVars == <<b_opts, b_pc, b_ctx, b_tick, b_resp, b_ret, b_log>>
checkerVars == <<k_debug, k_pc, k_ctx, k_tick, k_resp, k_ret, k_log>>
clientVars == <<buttonVars, checkerVars, faults>>
cfgVars == <<c_cfg, c_flag, c_res, c_repo>>
updVars == <<u_marker, u_local, u_remote, u_run, p_run, p_out>>
instVars == <<cfgVars, updVars>>
vars == <<svcVars, repoVars, clientVars, instVars>>

\* ------------------------------------------------------------------- heaps
Free == [free |-> TRUE]
StateAddrs == 1..MaxStates
ActorAddrs == 1..MaxActors

\* The lowest free address of a heap, 0 when the heap is full.
Alloc(heap) ==
    IF \E a \in DOMAIN heap : heap[a] = Free
    THEN CHOOSE a \in DOMAIN heap :
            heap[a] = Free /\ \A b \in DOMAIN heap : b < a => heap[b] # Free
    ELSE 0

\* The Actor value behind an address, NULL for the nil pointer.
ActorVal(as, a) == IF a = 0 THEN NULL ELSE as[a]

\* The State behind an address with its actor by value, NULL for nil.
StateVal(st, as, s) ==
    IF s = 0 THEN NULL
    ELSE MkState(st[s].Timestamp, ActorVal(as, st[s].LastActor), st[s].IsEnabled)

\* Objects no pointer of the program reaches are collected.
LiveStates(ss, res) == ({ss} \cup {res[p] : p \in Procs}) \ {0}

LiveActors(st, ss, res, act) ==
    ({act[p] : p \in Procs} \cup {st[s].LastActor : s \in LiveStates(ss, res)}) \ {0}

CollectStates(st, ss, res) ==
    [s \in StateAddrs |-> IF s \in LiveStates(ss, res) THEN st[s] ELSE Free]

CollectActors(as, st, ss, res, act) ==
    [a \in ActorAddrs |-> IF a \in LiveActors(st, ss, res, act) THEN as[a] ELSE Free]

\* ------------------------------------------------------------ domain: Clone
\* ActorClone as it would be if Clone returned its receiver.
ActorCloneShared(as, a) == [addr |-> a, heap |-> as]

\* Actor.Clone: [addr, heap] of a copy of the actor at address a; nil for nil.
ActorClone(as, a) ==
    IF a = 0 THEN [addr |-> 0, heap |-> as]
    ELSE LET n == Alloc(as)
         IN [addr |-> n, heap |-> [as EXCEPT ![n] = as[a]]]

\* State.Clone of the State whose fields read as v (LastActor an address):
\* [addr, states, actors] of a new State with a cloned actor.
StateClone(st, as, v) ==
    LET c == ActorClone(as, v.LastActor)
        n == Alloc(st)
    IN [addr |-> n,
        states |-> [st EXCEPT ![n] = [Timestamp |-> v.Timestamp,
                                      LastActor |-> c.addr,
                                      IsEnabled |-> v.IsEnabled]],
        actors |-> c.heap]

\* Room in the heaps for a State and for n Actors.
HasRoom(st, as, n) ==
    /\ \E s \in StateAddrs : st[s] = Free
    /\ Cardinality({a \in ActorAddrs : as[a] = Free}) >= n

\* ------------------------------------------------------------- time.Now()
ClockNanos(k) ==
    CASE k % 4 = 0 -> 7 [] k % 4 = 1 -> 5000 [] k % 4 = 2 -> 250000000 [] OTHER -> 0

\* time.Now(): wall clock reading with a monotonic reading, local location.
\* Every reading moves the clock on, up to MaxClock.
NextClock == IF clock < MaxClock THEN clock + 1 ELSE clock

Now == [day |-> NowDay, sod |-> 43200 + ((clock + 1) \div 4),
        nsec |-> ClockNanos(clock), mono |-> TRUE, loc |-> "Local"]

\* ----------------------------------------------------------- gRPC handler
\* toProtoState: the State returned by the service (by value) to the
\* response message; an empty message for nil.
toProtoState(state) ==
    IF state = NULL
    THEN [Timestamp |-> NULL, LastActor |-> NULL, IsEnabled |-> FALSE]
    ELSE [Timestamp |-> IF ~IsZero(state.Timestamp)
                        THEN TimestampNew(state.Timestamp) ELSE NULL,
          LastActor |-> IF state.LastActor # NULL
                        THEN [Hostname |-> state.LastActor.Hostname,
                              Username |-> state.LastActor.Username]
                        ELSE NULL,
          IsEnabled |-> state.IsEnabled]

OK == "OK"
InvalidArgument == "InvalidArgument"
Internal == "Internal"

\* An RPC answer: a status code and, with OK, the response message.
Answer(code, msg) == [code |-> code, msg |-> msg]

SampleActors == {MkActor("h1", "u1"), MkActor("h2", "u2")}

\* SetAlarmStateRequest messages: nil, without actor, and complete ones.
NilRequest == [nil |-> TRUE]
SetRequest(a, e) == [op |-> "set", Actor |-> a, IsEnabled |-> e]
GetRequest == [op |-> "get"]
SetRequests ==
    {NilRequest, SetRequest(NULL, TRUE)}
        \cup {SetRequest(a, e) : a \in SampleActors, e \in BOOLEAN}

IsSet(r) == r # NilRequest /\ r # GetRequest
IsGet(r) == r = GetRequest

NoRet == [state |-> NULL, err |-> NoErr]
NoResp == [code |-> "none", msg |-> NULL]
NoHist == [startup |-> NULL, set |-> NULL]

\* --------------------------------------------------------------- service
EmptyStates == [s \in StateAddrs |-> Free]
EmptyActors == [a \in ActorAddrs |-> Free]
IdleMu == [writer |-> "none", readers |-> {}]

\* sync.RWMutex: Lock waits for the writer and all readers to leave,
\* RLock for the writer.
\* CanRLock as it would be if readers did not wait for the writer.
CanRLockAlways == TRUE

\* CanLock as it would be if SetAlarmState did not take the lock.
CanLockShared == TRUE

CanLock == mu.writer = "none" /\ mu.readers = {}
CanRLock == mu.writer = "none"

ErrPersist == "persist state"

\* The answer of a finished call is taken by its caller (Receive, Keep)
\* before the next step of anything else: a step that commutes with all
\* others is scheduled first.
Quiet == \A p \in Procs : pc[p] # "done"

\* InitialState as it would be if the loaded State were not installed.
InitialStateDefault(ld) ==
    IF ld.err = NoErr \/ ld.err = ErrNotFound THEN MkState(Now, NULL, FALSE)
    ELSE NULL

\* InitialState as it would be if every failure of Load gave the default.
InitialStateLenient(ld) ==
    IF ld.err = NoErr THEN ld.state ELSE MkState(Now, NULL, FALSE)

\* newService: the State the service starts with, given what Load returned:
\* the loaded State, or the default one (disabled, no actor) when the file
\* was not found. NULL when the service is not created.
InitialState(ld) ==
    IF ld.err = NoErr THEN ld.state
    ELSE IF ld.err = ErrNotFound THEN MkState(Now, NULL, FALSE)
    ELSE NULL

\* server.Run up to Serve: the repository is opened on the state file and
\* the service is created from it; Run returns an error if that fails.
Start ==
    /\ srv \in {"stopped", "failed"}
    /\ LET v == InitialState(Load(file))
       IN IF v = NULL
          THEN /\ srv' = "failed"
               /\ UNCHANGED <<s_state, states, actors, hist>>
          ELSE /\ srv' = "running"
               /\ s_state' = 1
               /\ states' = [EmptyStates EXCEPT ![1] =
                                [Timestamp |-> v.Timestamp,
                                 LastActor |-> IF v.LastActor = NULL THEN 0 ELSE 1,
                                 IsEnabled |-> v.IsEnabled]]
               /\ actors' = IF v.LastActor = NULL THEN EmptyActors
                            ELSE [EmptyActors EXCEPT ![1] = v.LastActor]
               /\ hist' = [startup |-> v,
                           set |-> IF hist.set = NULL THEN NULL
                                   ELSE [hist.set EXCEPT !.old = TRUE]]
    /\ clock' = NextClock
    /\ UNCHANGED <<mu, file, pc, req, actor, result, ret, resp, fresh,
                   after, repoVars, instVars, clientVars>>

\* server.Run after ctx.Done(): GracefulStop waits for the RPCs in flight,
\* then the process and its memory are gone; the state file stays.
StopServer ==
    /\ srv = "running"
    /\ \A p \in Procs : pc[p] = "idle"
    /\ srv' = "stopped"
    /\ s_state' = 0
    /\ states' = EmptyStates
    /\ actors' = EmptyActors
    /\ UNCHANGED <<mu, file, clock, pc, req, actor, result, ret, resp, hist,
                   fresh, after, repoVars, instVars>>

Stop == StopServer /\ UNCHANGED clientVars

\* SetAnswer as it would be if the handler ignored the service's error.
SetAnswerSwallowed(r) == Answer(OK, toProtoState(r.state))

\* Server.SetAlarmState, the mapping of the service's return to the answer.
SetAnswer(r) ==
    IF r.err # NoErr THEN Answer(Internal, NULL)
    ELSE Answer(OK, toProtoState(r.state))

\* The generated getters of the request message, safe on nil.
GetActor(r) == IF r = NilRequest THEN NULL ELSE r.Actor
GetIsEnabled(r) == IF r = NilRequest THEN FALSE ELSE r.IsEnabled

\* Rejected as it would be without the check of the actor.
RejectedNilOnly(r) == r = NilRequest

\* Server.SetAlarmState, the validation of the request.
Rejected(r) == r = NilRequest \/ GetActor(r) = NULL

\* toDomainActor: [addr, heap] of a new domain Actor with the fields of the
\* message's actor; nil for nil.
toDomainActor(as, a) ==
    IF a = NULL THEN [addr |-> 0, heap |-> as]
    ELSE [addr |-> Alloc(as),
          heap |-> [as EXCEPT ![Alloc(as)] = MkActor(a.Hostname, a.Username)]]

\* Server.SetAlarmState up to the call of the service: the request is
\* validated and its actor converted (toDomainActor).
HandleSet(p, r) ==
    /\ srv = "running"
    /\ Quiet
    /\ pc[p] = "idle"
    /\ req' = [req EXCEPT ![p] = r]
    /\ IF Rejected(r)
       THEN /\ resp' = [resp EXCEPT ![p] = Answer(InvalidArgument, NULL)]
            /\ pc' = [pc EXCEPT ![p] = "done"]
            /\ UNCHANGED <<actors, actor>>
       ELSE /\ Alloc(actors) # 0
            /\ LET a == toDomainActor(actors, GetActor(r))
               IN /\ actors' = a.heap
                  /\ actor' = [actor EXCEPT ![p] = a.addr]
            /\ pc' = [pc EXCEPT ![p] = "set_lock"]
            /\ UNCHANGED resp
    /\ UNCHANGED <<srv, s_state, states, mu, file, clock, result, ret, hist,
                   fresh, after, repoVars, instVars, clientVars>>

\* NewState as it would be if an enabled alarm could not be switched off.
NewStateLatched(c, isEnabled) ==
    [Timestamp |-> Now, LastActor |-> c,
     IsEnabled |-> isEnabled \/ (s_state # 0 /\ states[s_state].IsEnabled)]

\* The fields of the State that SetAlarmState installs: the current time,
\* a clone of the actor (c its address) and the requested value.
NewState(c, isEnabled) ==
    [Timestamp |-> Now, LastActor |-> c, IsEnabled |-> isEnabled]

\* service.SetAlarmState from s.mu.Lock() to the return of s.repo.Save:
\* s.state = &domain.State{...}, then the new State is saved. On an error
\* the service returns (nil, error), the deferred Unlock runs and the
\* handler answers.
SetWrite(p, writeOk) ==
    /\ Quiet
    /\ pc[p] = "set_lock"
    /\ CanLock
    /\ HasRoom(states, actors, 1)
    /\ LET c == ActorClone(actors, actor[p])
           n == Alloc(states)
           st == [states EXCEPT ![n] = NewState(c.addr, GetIsEnabled(req[p]))]
           written == MkState(Now, GetActor(req[p]), GetIsEnabled(req[p]))
       IN /\ s_state' = n
          /\ states' = CollectStates(st, n, result)
          /\ actors' = CollectActors(c.heap, st, n, result, actor)
          /\ \E o \in Save(file, StateVal(st, c.heap, n), writeOk) :
                /\ file' = o.file
                /\ hist' = [startup |-> NULL,
                            set |-> [val |-> written, ok |-> (o.err = NoErr),
                                     old |-> FALSE]]
                /\ IF o.err # NoErr
                   THEN /\ ret' = [ret EXCEPT ![p] =
                                      [state |-> NULL, err |-> ErrPersist]]
                        /\ resp' = [resp EXCEPT ![p] = SetAnswer(ret'[p])]
                        /\ pc' = [pc EXCEPT ![p] = "done"]
                        /\ UNCHANGED mu
                   ELSE /\ mu' = [mu EXCEPT !.writer = p]
                        /\ pc' = [pc EXCEPT ![p] = "set_clone"]
                        /\ UNCHANGED <<ret, resp>>
    /\ clock' = NextClock
    /\ fresh' = [q \in Procs |-> FALSE]
    /\ UNCHANGED <<srv, req, actor, result, after, repoVars, instVars, clientVars>>

\* service.SetAlarmState after a successful Save: result := s.state.Clone(),
\* the deferred Unlock, and the handler's answer.
SetReturn(p) ==
    /\ Quiet
    /\ pc[p] = "set_clone"
    /\ HasRoom(states, actors, 1)
    /\ LET cl == StateClone(states, actors, states[s_state])
       IN /\ result' = [result EXCEPT ![p] = cl.addr]
          /\ states' = cl.states
          /\ actors' = cl.actors
          /\ ret' = [ret EXCEPT ![p] =
                        [state |-> StateVal(cl.states, cl.actors, cl.addr),
                         err |-> NoErr]]
    /\ resp' = [resp EXCEPT ![p] = SetAnswer(ret'[p])]
    /\ mu' = [mu EXCEPT !.writer = "none"]
    /\ pc' = [pc EXCEPT ![p] = "done"]
    /\ after' = [q \in Procs |-> after[q] \/ (q # p /\ pc[q] = "set_lock")]
    /\ UNCHANGED <<srv, s_state, file, clock, req, actor, hist, fresh,
                   repoVars, instVars, clientVars>>

\* Server.GetAlarmState: the handler calls the service.
HandleGet(p) ==
    /\ srv = "running"
    /\ Quiet
    /\ pc[p] = "idle"
    /\ req' = [req EXCEPT ![p] = GetRequest]
    /\ pc' = [pc EXCEPT ![p] = "get_lock"]
    /\ UNCHANGED <<srv, s_state, states, actors, mu, file, clock, actor,
                   result, ret, resp, hist, fresh, after, repoVars, instVars, clientVars>>

\* service.GetAlarmState: s.mu.RLock().
GetLock(p) ==
    /\ Quiet
    /\ pc[p] = "get_lock"
    /\ CanRLock
    /\ mu' = [mu EXCEPT !.readers = @ \cup {p}]
    /\ pc' = [pc EXCEPT ![p] = "get_clone"]
    /\ UNCHANGED <<srv, s_state, states, actors, file, clock, req, actor,
                   result, ret, resp, hist, fresh, after, repoVars, instVars, clientVars>>

\* What a read of the fields of *s.state may yield. Under the lock it is the
\* State itself. A read that races with a writer in its critical section is
\* a data race: each field may show the written value or the zero value of
\* the freshly allocated object.
ReadState ==
    IF mu.writer = "none" THEN {states[s_state]}
    ELSE {[Timestamp |-> t, LastActor |-> a, IsEnabled |-> e] :
             t \in {states[s_state].Timestamp, ZeroTime},
             a \in {states[s_state].LastActor, 0},
             e \in {states[s_state].IsEnabled, FALSE}}

\* service.GetAlarmState: result := s.state.Clone(), the deferred RUnlock,
\* and the handler's answer.
GetReturn(p) ==
    /\ Quiet
    /\ pc[p] = "get_clone"
    /\ HasRoom(states, actors, 1)
    /\ \E v \in ReadState :
       LET cl == StateClone(states, actors, v)
       IN /\ result' = [result EXCEPT ![p] = cl.addr]
          /\ states' = cl.states
          /\ actors' = cl.actors
          /\ ret' = [ret EXCEPT ![p] =
                        [state |-> StateVal(cl.states, cl.actors, cl.addr),
                         err |-> NoErr]]
    /\ resp' = [resp EXCEPT ![p] = Answer(OK, toProtoState(ret'[p].state))]
    /\ fresh' = [fresh EXCEPT ![p] = TRUE]
    /\ mu' = [mu EXCEPT !.readers = @ \ {p}]
    /\ pc' = [pc EXCEPT ![p] = "done"]
    /\ UNCHANGED <<srv, s_state, file, clock, req, actor, hist, after,
                   repoVars, instVars, clientVars>>

\* The heaps after the caller p has written through every pointer it
\* holds: the fields of the returned State, that State's actor, and the
\* actor it passed in.
WrittenStates(p) ==
    IF result[p] = 0 THEN states
    ELSE [states EXCEPT ![result[p]] =
             [Timestamp |-> ZeroTime, LastActor |-> @.LastActor,
              IsEnabled |-> ~@.IsEnabled]]

WrittenActors(p) ==
    LET a == IF result[p] = 0 THEN 0 ELSE states[result[p]].LastActor
    IN [x \in ActorAddrs |->
           IF x \in ({a, actor[p]} \ {0})
           THEN [Hostname |-> "changed", Username |-> actors[x].Username]
           ELSE actors[x]]

\* The caller takes the answer and, if write, writes through the pointers
\* it holds before it drops them.
Receive(p, write) ==
    /\ pc[p] = "done"
    /\ pc' = [pc EXCEPT ![p] = "idle"]
    /\ req' = [req EXCEPT ![p] = NilRequest]
    /\ actor' = [actor EXCEPT ![p] = 0]
    /\ result' = [result EXCEPT ![p] = 0]
    /\ ret' = [ret EXCEPT ![p] = NoRet]
    /\ resp' = [resp EXCEPT ![p] = NoResp]
    /\ fresh' = [fresh EXCEPT ![p] = FALSE]
    /\ after' = [after EXCEPT ![p] = FALSE]
    /\ LET st == IF write THEN WrittenStates(p) ELSE states
           as == IF write THEN WrittenActors(p) ELSE actors
       IN /\ states' = CollectStates(st, s_state, result')
          /\ actors' = CollectActors(as, st, s_state, result', actor')
    /\ UNCHANGED <<srv, s_state, mu, file, clock, hist, repoVars, instVars, clientVars>>

\* The caller of GetAlarmState takes the answer and keeps the State.
Keep(p) ==
    /\ pc[p] = "done"
    /\ IsGet(req[p])
    /\ pc' = [pc EXCEPT ![p] = "held"]
    /\ ret' = [ret EXCEPT ![p] = NoRet]
    /\ resp' = [resp EXCEPT ![p] = NoResp]
    /\ UNCHANGED <<srv, s_state, states, actors, mu, file, clock, req, actor,
                   result, hist, fresh, after, repoVars, instVars, clientVars>>

\* The holder of a returned State writes through its pointers.
Mutate(p) ==
    /\ Quiet
    /\ pc[p] = "held"
    /\ fresh[p]
    /\ states' = WrittenStates(p)
    /\ actors' = WrittenActors(p)
    /\ fresh' = [fresh EXCEPT ![p] = FALSE]
    /\ UNCHANGED <<srv, s_state, mu, file, clock, pc, req, actor, result,
                   ret, resp, hist, after, repoVars, instVars, clientVars>>

\* The holder drops the State it kept.
Release(p) ==
    /\ Quiet
    /\ pc[p] = "held"
    /\ pc' = [pc EXCEPT ![p] = "idle"]
    /\ req' = [req EXCEPT ![p] = NilRequest]
    /\ result' = [result EXCEPT ![p] = 0]
    /\ fresh' = [fresh EXCEPT ![p] = FALSE]
    /\ states' = CollectStates(states, s_state, result')
    /\ actors' = CollectActors(actors, states, s_state, result', actor)
    /\ UNCHANGED <<srv, s_state, mu, file, clock, actor, ret, resp, hist,
                   after, repoVars, instVars, clientVars>>

\* ------------------------------------------------- the server, per RPC
\* Server.SetAlarmState with service.SetAlarmState on the request r, run
\* without interleaving (writers are serialised by s.mu): the outcomes
\* [s_state, states, actors, file, hist, answer]. The new State is
\* installed whether or not its save succeeds.
ServeSet(r, writeOk) ==
    IF Rejected(r)
    THEN {[s_state |-> s_state, states |-> states, actors |-> actors,
           file |-> file, hist |-> hist,
           answer |-> Answer(InvalidArgument, NULL)]}
    ELSE LET a == toDomainActor(EmptyActors, GetActor(r))
             st == [EmptyStates EXCEPT ![1] = NewState(a.addr, GetIsEnabled(r))]
             v == StateVal(st, a.heap, 1)
         IN {[s_state |-> 1, states |-> st, actors |-> a.heap, file |-> o.file,
              hist |-> [startup |-> NULL,
                        set |-> [val |-> v, ok |-> (o.err = NoErr), old |-> FALSE]],
              answer |-> SetAnswer([state |-> v, err |-> o.err])] :
                o \in Save(file, v, writeOk)}

\* ServeGet as it would be if reads answered the default State.
ServeGetDefault == Answer(OK, toProtoState(MkState(Now, NULL, FALSE)))

\* Server.GetAlarmState with service.GetAlarmState: the answer.
ServeGet == Answer(OK, toProtoState(StateVal(states, actors, s_state)))

\* A counter of a history, which stops at MaxAttempts.
Count(n) == IF n < MaxAttempts THEN n + 1 ELSE n

\* ------------------------------------------------------ button client
\* common.DetectActor on the button's workstation.
ButtonActor == MkActor("h1", "u1")

ErrSetup == "setup"
ErrShutdown == "shutdown"
ErrCanceled == "context canceled"
ErrRpc == "rpc"
NotReturned == "none"

NoButtonLog == [attempts |-> 0, taken |-> 0, shutdowns |-> 0,
                confirmed |-> FALSE, late |-> 0, early |-> FALSE]

\* No button client runs.
ButtonOff ==
    /\ b_opts = [DesiredState |-> FALSE, Debug |-> FALSE]
    /\ b_pc = "off"
    /\ b_ctx = "live"
    /\ b_tick = "none"
    /\ b_resp = NoResp
    /\ b_ret = NotReturned
    /\ b_log = NoButtonLog

\* History: the answer is a response that reports the state e.
Reports(answer, e) ==
    answer.code = OK /\ answer.msg # NULL /\ answer.msg.IsEnabled = e

\* Confirmed as it would be if every answer counted as a confirmation.
ConfirmedAlways(answer, desired) == TRUE

\* attempt: the RPC returned no error and its response reports the desired
\* state.
Confirmed(answer, desired) ==
    answer.code = OK /\ answer.msg # NULL /\ answer.msg.IsEnabled = desired

\* The cases of the select of a retry or poll loop that are ready; Go takes
\* any one of them.
SelectCases(ctx, tick) ==
    (IF ctx = "canceled" THEN {"done"} ELSE {})
        \cup (IF tick = "full" THEN {"tick"} ELSE {})

\* ShutdownWanted as it would be without the debug flag.
ShutdownWantedInDebug(opts) == opts.DesiredState

\* attempt: the machine is shut down after the alarm was enabled, unless
\* debug is on.
ShutdownWanted(opts) == opts.DesiredState /\ ~opts.Debug

\* Execute: the exit code of the process for what Run returned.
ExitCode(err) == IF err = NoErr THEN 0 ELSE 1

\* CtxErr as it would be if the retry loop returned nil when canceled.
CtxErrNil(ctx) == NoErr

\* ctx.Err().
CtxErr(ctx) == IF ctx = "canceled" THEN ErrCanceled ELSE NoErr

\* CallCtx as it would be if the RPCs did not run under the context of Run.
CallCtxBackground(ctx) == "live"

\* Client.callContext: the context of an RPC is derived from the context
\* of Run and is canceled with it.
CallCtx(ctx) == ctx

\* time.NewTicker after the first attempt: the ticker once it exists.
Ticker(tick) == IF tick = "none" THEN "empty" ELSE tick

\* client.Run up to the first attempt: config.Load, common.DetectActor and
\* common.Dial; Run returns the error of the first that fails.
ButtonSetup(ok) ==
    /\ b_pc = "start"
    /\ b_pc' = IF ok THEN "first" ELSE "returned"
    /\ b_ret' = IF ok THEN b_ret ELSE ErrSetup
    /\ UNCHANGED <<b_opts, b_ctx, b_tick, b_resp, b_log,
                   svcVars, repoVars, instVars, checkerVars, faults>>

\* AttemptOnError as it would be if attempt returned the error of the RPC.
AttemptOnErrorAbort == [done |-> FALSE, err |-> ErrRpc]

\* attempt when the RPC returns an error: the error is logged and attempt
\* returns (false, nil).
AttemptOnError == [done |-> FALSE, err |-> NoErr]

\* attempt when the RPC returns a response: (true, nil) on a confirmation,
\* after the shutdown if one is wanted, whose error it returns; (false,
\* nil) otherwise.
AttemptOnAnswer(answer, opts, shutdownOk) ==
    IF ~Confirmed(answer, opts.DesiredState) THEN [done |-> FALSE, err |-> NoErr]
    ELSE IF ShutdownWanted(opts) /\ ~shutdownOk THEN [done |-> FALSE, err |-> ErrShutdown]
    ELSE [done |-> TRUE, err |-> NoErr]

\* Run after attempt returned res: Run returns its error, or nil when done;
\* otherwise the retry loop selects.
RetryPc(res) == IF res.err # NoErr \/ res.done THEN "returned" ELSE "select"
RetryRet(res) ==
    IF res.err # NoErr THEN res.err ELSE IF res.done THEN NoErr ELSE b_ret

\* attempt up to the RPC: client.SetAlarmState is called. On a canceled
\* context the RPC fails at once.
ButtonCall(taken) ==
    /\ b_pc' = IF CallCtx(b_ctx) = "canceled" THEN RetryPc(AttemptOnError) ELSE "call"
    /\ b_ret' = IF CallCtx(b_ctx) = "canceled" THEN RetryRet(AttemptOnError) ELSE b_ret
    /\ b_log' = [b_log EXCEPT !.attempts = Count(@),
                              !.taken = IF taken THEN Count(@) ELSE @,
                              !.late = IF b_ctx = "canceled" THEN Count(@) ELSE @]
    /\ b_resp' = NoResp

\* The attempt made immediately, before the ticker exists.
ButtonFirst ==
    /\ b_pc = "first"
    /\ ButtonCall(FALSE)
    /\ b_tick' = IF b_pc' = "select" THEN Ticker(b_tick) ELSE b_tick
    /\ UNCHANGED <<b_opts, b_ctx, svcVars, repoVars, instVars, checkerVars, faults>>

\* The server handles the button's request. The answer reaches a client
\* whose context is live; a client that has canceled sees only the error.
ButtonServe(writeOk) ==
    /\ b_pc = "call"
    /\ srv = "running"
    /\ writeOk \/ faults < MaxFaults
    /\ \E o \in ServeSet(SetRequest(ButtonActor, b_opts.DesiredState), writeOk) :
          /\ s_state' = o.s_state
          /\ states' = o.states
          /\ actors' = o.actors
          /\ file' = o.file
          /\ hist' = o.hist
          /\ b_resp' = IF CallCtx(b_ctx) = "live" THEN o.answer ELSE NoResp
    /\ b_pc' = IF CallCtx(b_ctx) = "live" THEN "answered" ELSE "lost"
    /\ clock' = NextClock
    /\ faults' = IF writeOk THEN faults ELSE faults + 1
    /\ UNCHANGED <<srv, mu, pc, req, actor, result, ret, resp, fresh, after,
                   b_opts, b_ctx, b_tick, b_ret, b_log, repoVars, instVars, checkerVars>>

\* attempt, the RPC returns an error (server not running, connection lost,
\* deadline exceeded, context canceled).
ButtonFail ==
    /\ b_pc \in {"call", "answered", "lost"}
    /\ CallCtx(b_ctx) = "canceled" \/ srv # "running" \/ faults < MaxFaults
    /\ b_pc' = RetryPc(AttemptOnError)
    /\ b_ret' = RetryRet(AttemptOnError)
    /\ b_resp' = NoResp
    /\ b_tick' = IF b_pc' = "select" THEN Ticker(b_tick) ELSE b_tick
    /\ faults' = IF CallCtx(b_ctx) = "live" /\ srv = "running" THEN faults + 1 ELSE faults
    /\ UNCHANGED <<b_opts, b_ctx, b_log, svcVars, repoVars, instVars, checkerVars>>

\* attempt, the RPC returns a response; power.Shutdown starts the shutdown
\* command or fails.
ButtonAnswer(shutdownOk) ==
    /\ b_pc = "answered"
    /\ shutdownOk \/ (Confirmed(b_resp, b_opts.DesiredState) /\ ShutdownWanted(b_opts))
    /\ LET res == AttemptOnAnswer(b_resp, b_opts, shutdownOk)
       IN /\ b_pc' = RetryPc(res)
          /\ b_ret' = RetryRet(res)
    /\ b_tick' = IF b_pc' = "select" THEN Ticker(b_tick) ELSE b_tick
    /\ b_log' = IF Confirmed(b_resp, b_opts.DesiredState)
                THEN [b_log EXCEPT
                        !.confirmed = Reports(b_resp, b_opts.DesiredState),
                        !.shutdowns = IF ShutdownWanted(b_opts) THEN Count(@) ELSE @]
                ELSE b_log
    /\ b_resp' = NoResp
    /\ UNCHANGED <<b_opts, b_ctx, svcVars, repoVars, instVars, checkerVars, faults>>

\* The select of the retry loop: on ctx.Done() Run returns ctx.Err(), on a
\* tick the next attempt starts.
ButtonSelect(case) ==
    /\ b_pc = "select"
    /\ case \in SelectCases(b_ctx, b_tick)
    /\ IF case = "done"
       THEN /\ b_pc' = "returned"
            /\ b_ret' = CtxErr(b_ctx)
            /\ UNCHANGED <<b_tick, b_resp, b_log>>
       ELSE /\ ButtonCall(TRUE)
            /\ b_tick' = "empty"
    /\ UNCHANGED <<b_opts, b_ctx, svcVars, repoVars, instVars, checkerVars, faults>>

\* The push interval passes while Run waits in the select or for the RPC:
\* the ticker puts a tick in its channel, which holds one. Steps that do
\* not wait take no time: the select waits when no case is ready, the RPC
\* while its context is live.
ButtonTick ==
    /\ b_tick = "empty"
    /\ \/ b_pc = "select" /\ SelectCases(b_ctx, b_tick) = {}
       \/ b_pc \in {"call", "answered"} /\ CallCtx(b_ctx) = "live"
    /\ b_tick' = "full"
    /\ UNCHANGED <<b_opts, b_pc, b_ctx, b_resp, b_ret, b_log,
                   svcVars, repoVars, instVars, checkerVars, faults>>

\* SIGINT or SIGTERM: the context of Run is canceled.
ButtonCancel ==
    /\ b_ctx = "live"
    /\ b_pc \notin {"off", "returned"}
    /\ b_ctx' = "canceled"
    /\ b_log' = [b_log EXCEPT !.early = ~Reports(b_resp, b_opts.DesiredState)]
    /\ UNCHANGED <<b_opts, b_pc, b_tick, b_resp, b_ret,
                   svcVars, repoVars, instVars, checkerVars, faults>>

\* ------------------------------------------------------------ checker
ErrShutdownInitiated == "shutdown initiated"

NoCheckerLog == [failures |-> 0, enabled |-> 0, shutdowns |-> 0,
                 started |-> 0, late |-> 0, extra |-> 0]

\* No checker runs.
CheckerOff ==
    /\ k_debug = FALSE
    /\ k_pc = "off"
    /\ k_ctx = "live"
    /\ k_tick = "none"
    /\ k_resp = NoResp
    /\ k_ret = NotReturned
    /\ k_log = NoCheckerLog

\* MustShutdown as it would be without the debug flag.
MustShutdownInDebug(answer, debug) == answer.msg.IsEnabled

\* checkState: the state is enabled and debug is off.
MustShutdown(answer, debug) == answer.msg.IsEnabled /\ ~debug

\* CheckState as it would be if a shutdown that failed to start counted
\* as initiated.
CheckStateOptimistic(answer, debug, shutdownOk) ==
    IF ~MustShutdown(answer, debug) THEN NoErr ELSE ErrShutdownInitiated

\* checkState after the RPC returned a response: nil, the error of
\* power.Shutdown, or errShutdownInitiated.
CheckState(answer, debug, shutdownOk) ==
    IF ~MustShutdown(answer, debug) THEN NoErr
    ELSE IF ~shutdownOk THEN ErrShutdown
    ELSE ErrShutdownInitiated

\* checkState when the RPC returns an error: that error.
CheckStateOnError == ErrRpc

\* PollLoop as it would be if any error of checkState ended the loop.
PollLoopStrict(err) == IF err # NoErr THEN "returned" ELSE "select"

\* PollLoop as it would be if the loop went on after a shutdown.
PollLoopForever(err) == "select"

\* checker.Run after checkState returned err: the loop ends on
\* errShutdownInitiated; any other error is logged and the loop goes on.
PollLoop(err) == IF err = ErrShutdownInitiated THEN "returned" ELSE "select"

\* checker.Run up to the loop: config.Load, common.DetectActor, common.Dial
\* and time.NewTicker; Run returns the error of the first that fails.
CheckerSetup(ok) ==
    /\ k_pc = "start"
    /\ k_pc' = IF ok THEN "select" ELSE "returned"
    /\ k_ret' = IF ok THEN k_ret ELSE ErrSetup
    /\ k_tick' = IF ok THEN Ticker(k_tick) ELSE k_tick
    /\ UNCHANGED <<k_debug, k_ctx, k_resp, k_log,
                   svcVars, repoVars, instVars, buttonVars, faults>>

\* The select of the poll loop: on ctx.Done() Run returns nil; on a tick
\* checkState calls client.GetAlarmState, which fails at once on a canceled
\* context.
CheckerSelect(case) ==
    /\ k_pc = "select"
    /\ case \in SelectCases(k_ctx, k_tick)
    /\ IF case = "done"
       THEN /\ k_pc' = "returned"
            /\ k_ret' = NoErr
            /\ UNCHANGED <<k_tick, k_log>>
       ELSE /\ k_tick' = "empty"
            /\ k_pc' = IF CallCtx(k_ctx) = "canceled" THEN PollLoop(CheckStateOnError) ELSE "call"
            /\ k_ret' = IF k_pc' = "returned" THEN NoErr ELSE k_ret
            /\ k_log' = [k_log EXCEPT
                            !.late = IF k_ctx = "canceled" THEN Count(@) ELSE @,
                            !.failures = IF CallCtx(k_ctx) = "canceled" THEN Count(@) ELSE @,
                            !.extra = IF k_log.started > 0 THEN Count(@) ELSE @]
    /\ UNCHANGED <<k_debug, k_ctx, k_resp, svcVars, repoVars, instVars, buttonVars, faults>>

\* The server handles the checker's request. The answer reaches a client
\* whose context is live; a client that has canceled sees only the error.
CheckerServe ==
    /\ k_pc = "call"
    /\ srv = "running"
    /\ k_resp' = IF CallCtx(k_ctx) = "live" THEN ServeGet ELSE NoResp
    /\ k_pc' = IF CallCtx(k_ctx) = "live" THEN "answered" ELSE "lost"
    /\ UNCHANGED <<k_debug, k_ctx, k_tick, k_ret, k_log,
                   svcVars, repoVars, instVars, buttonVars, faults>>

\* checkState, the RPC returns an error (server not running, connection
\* lost, deadline exceeded, context canceled); Run logs it.
CheckerFail ==
    /\ k_pc \in {"call", "answered", "lost"}
    /\ CallCtx(k_ctx) = "canceled" \/ srv # "running" \/ faults < MaxFaults
    /\ k_pc' = PollLoop(CheckStateOnError)
    /\ k_ret' = IF k_pc' = "returned" THEN NoErr ELSE k_ret
    /\ k_resp' = NoResp
    /\ k_log' = [k_log EXCEPT !.failures = Count(@)]
    /\ faults' = IF CallCtx(k_ctx) = "live" /\ srv = "running" THEN faults + 1 ELSE faults
    /\ UNCHANGED <<k_debug, k_ctx, k_tick, svcVars, repoVars, instVars, buttonVars>>

\* checkState, the RPC returns a response: the state is logged and, when it
\* is enabled and debug is off, power.Shutdown is called.
CheckerAnswer(shutdownOk) ==
    /\ k_pc = "answered"
    /\ shutdownOk \/ MustShutdown(k_resp, k_debug)
    /\ LET err == CheckState(k_resp, k_debug, shutdownOk)
       IN /\ k_pc' = PollLoop(err)
          /\ k_ret' = IF k_pc' = "returned" THEN NoErr ELSE k_ret
          /\ k_log' = [k_log EXCEPT
                          !.failures = IF err = ErrShutdown THEN Count(@) ELSE 0,
                          !.enabled = IF k_resp.msg.IsEnabled THEN Count(@) ELSE @,
                          !.shutdowns = IF MustShutdown(k_resp, k_debug)
                                        THEN Count(@) ELSE @,
                          !.started = IF err = ErrShutdownInitiated
                                      THEN Count(@) ELSE @]
    /\ k_resp' = NoResp
    /\ UNCHANGED <<k_debug, k_ctx, k_tick, svcVars, repoVars, instVars, buttonVars, faults>>

\* The poll interval passes while Run waits in the select or for the RPC:
\* the ticker puts a tick in its channel, which holds one. Steps that do
\* not wait take no time: the select waits when no case is ready, the RPC
\* while its context is live.
CheckerTick ==
    /\ k_tick = "empty"
    /\ \/ k_pc = "select" /\ SelectCases(k_ctx, k_tick) = {}
       \/ k_pc \in {"call", "answered"} /\ CallCtx(k_ctx) = "live"
    /\ k_tick' = "full"
    /\ UNCHANGED <<k_debug, k_pc, k_ctx, k_resp, k_ret, k_log,
                   svcVars, repoVars, instVars, buttonVars, faults>>

\* SIGINT or SIGTERM: the context of Run is canceled.
CheckerCancel ==
    /\ k_ctx = "live"
    /\ k_pc \notin {"off", "returned"}
    /\ k_ctx' = "canceled"
    /\ UNCHANGED <<k_debug, k_pc, k_tick, k_resp, k_ret, k_log,
                   svcVars, repoVars, instVars, buttonVars, faults>>

\* -------------------------------------------- configuration and update
\* No configuration is being validated and no alarm-server is choosing its
\* state file.
ConfigOff ==
    /\ c_cfg = NULL
    /\ c_flag = NULL
    /\ c_res = "none"
    /\ c_repo = NULL

\* No updater and no packager runs.
UpdateOff ==
    /\ u_marker = "none"
    /\ u_local = NULL
    /\ u_remote = NULL
    /\ u_run = NULL
    /\ p_run = NULL
    /\ p_out = NULL

Init ==
    /\ srv = "stopped"
    /\ s_state = 0
    /\ states = EmptyStates
    /\ actors = EmptyActors
    /\ mu = IdleMu
    /\ file \in {Missing, Unreadable}
    /\ clock = 0
    /\ pc = [p \in Procs |-> "idle"]
    /\ req = [p \in Procs |-> NilRequest]
    /\ actor = [p \in Procs |-> 0]
    /\ result = [p \in Procs |-> 0]
    /\ ret = [p \in Procs |-> NoRet]
    /\ resp = [p \in Procs |-> NoResp]
    /\ hist = NoHist
    /\ fresh = [p \in Procs |-> FALSE]
    /\ after = [p \in Procs |-> FALSE]
    /\ r_file = Missing
    /\ r_op = "none"
    /\ r_want = NULL
    /\ r_res = NoRet
    /\ ButtonOff
    /\ CheckerOff
    /\ faults = 0
    /\ ConfigOff
    /\ UpdateOff

\* The server with its clients, disk failures and restarts; callers drop
\* what they receive.
Next ==
    \/ Start
    \/ Stop
    \/ \E p \in Procs : \E r \in SetRequests : HandleSet(p, r)
    \/ \E p \in Procs : \E writeOk \in BOOLEAN : SetWrite(p, writeOk)
    \/ \E p \in Procs : SetReturn(p)
    \/ \E p \in Procs : HandleGet(p)
    \/ \E p \in Procs : GetLock(p)
    \/ \E p \in Procs : GetReturn(p)
    \/ \E p \in Procs : \E write \in BOOLEAN : Receive(p, write)

Spec == Init /\ [][Next]_vars

\* In-process callers of the service that keep the States they get and
\* write to them; the disk does not fail and the server is not restarted.
AliasNext ==
    \/ Start
    \/ \E p \in Procs : \E r \in SetRequests : HandleSet(p, r)
    \/ \E p \in Procs : SetWrite(p, TRUE)
    \/ \E p \in Procs : SetReturn(p)
    \/ \E p \in Procs : HandleGet(p)
    \/ \E p \in Procs : GetLock(p)
    \/ \E p \in Procs : GetReturn(p)
    \/ \E p \in Procs : \E write \in BOOLEAN : Receive(p, write)
    \/ \E p \in Procs : Keep(p)
    \/ \E p \in Procs : Mutate(p)
    \/ \E p \in Procs : Release(p)

AliasSpec == Init /\ [][AliasNext]_vars

\* ------------------------------------------------- the repository alone
\* States handed to Save: timestamps at and around the limits of the JSON
\* format, with and without fractions, monotonic readings and locations,
\* and actors absent, empty and set.
SampleDays == {0 - 1, 0, UnixEpochDay, NowDay,
               UnixEpochDay + MaxTimestampDay, UnixEpochDay + MaxTimestampDay + 1}
SampleTimes ==
    {[day |-> d, sod |-> sd, nsec |-> n, mono |-> m,
      loc |-> IF m THEN "Local" ELSE "UTC"] :
        d \in SampleDays, sd \in {0, 86399}, n \in {0, 7, 5000, 250000000},
        m \in BOOLEAN}
SampleStates ==
    {MkState(t, a, e) :
        t \in SampleTimes,
        a \in {NULL, MkActor("", ""), MkActor("h1", "u1")},
        e \in BOOLEAN}

\* FileRepository.Save(state) on the repository's file.
RepoSave(state, writeOk) ==
    /\ \E o \in Save(r_file, state, writeOk) :
          /\ r_file' = o.file
          /\ r_res' = [state |-> NULL, err |-> o.err]
          /\ r_want' = IF o.err = NoErr THEN state ELSE NULL
    /\ r_op' = "save"
    /\ UNCHANGED <<svcVars, clientVars, instVars>>

\* FileRepository.Load() on the repository's file.
RepoLoad ==
    /\ r_res' = Load(r_file)
    /\ r_op' = "load"
    /\ UNCHANGED <<r_file, r_want, svcVars, clientVars, instVars>>

RepoInit ==
    /\ srv = "stopped"
    /\ s_state = 0
    /\ states = EmptyStates
    /\ actors = EmptyActors
    /\ mu = IdleMu
    /\ file = Missing
    /\ clock = 0
    /\ pc = [p \in Procs |-> "idle"]
    /\ req = [p \in Procs |-> NilRequest]
    /\ actor = [p \in Procs |-> 0]
    /\ result = [p \in Procs |-> 0]
    /\ ret = [p \in Procs |-> NoRet]
    /\ resp = [p \in Procs |-> NoResp]
    /\ hist = NoHist
    /\ fresh = [p \in Procs |-> FALSE]
    /\ after = [p \in Procs |-> FALSE]
    /\ r_file \in {Missing, Unreadable, Garbage}
    /\ r_op = "none"
    /\ r_want = NULL
    /\ r_res = NoRet
    /\ ButtonOff
    /\ CheckerOff
    /\ faults = 0
    /\ ConfigOff
    /\ UpdateOff

RepoNext ==
    \/ \E state \in SampleStates : \E writeOk \in BOOLEAN : RepoSave(state, writeOk)
    \/ RepoLoad

RepoSpec == RepoInit /\ [][RepoNext]_vars

\* ----------------------------------- server, button client and checker
\* Another workstation's SetAlarmState, handled by the server.
OtherSet(e, writeOk) ==
    /\ srv = "running"
    /\ writeOk \/ faults < MaxFaults
    /\ \E o \in ServeSet(SetRequest(MkActor("h2", "u2"), e), writeOk) :
          /\ s_state' = o.s_state
          /\ states' = o.states
          /\ actors' = o.actors
          /\ file' = o.file
          /\ hist' = o.hist
    /\ clock' = NextClock
    /\ faults' = IF writeOk THEN faults ELSE faults + 1
    /\ UNCHANGED <<srv, mu, pc, req, actor, result, ret, resp, fresh, after,
                   repoVars, instVars, buttonVars, checkerVars>>

\* The server is stopped while clients run.
FleetStop ==
    /\ StopServer
    /\ faults < MaxFaults
    /\ faults' = faults + 1
    /\ UNCHANGED <<buttonVars, checkerVars>>

\* The server before its start, on a path without state file.
ServerInit ==
    /\ srv = "stopped"
    /\ s_state = 0
    /\ states = EmptyStates
    /\ actors = EmptyActors
    /\ mu = IdleMu
    /\ file = Missing
    /\ clock = 0
    /\ pc = [p \in Procs |-> "idle"]
    /\ req = [p \in Procs |-> NilRequest]
    /\ actor = [p \in Procs |-> 0]
    /\ result = [p \in Procs |-> 0]
    /\ ret = [p \in Procs |-> NoRet]
    /\ resp = [p \in Procs |-> NoResp]
    /\ hist = NoHist
    /\ fresh = [p \in Procs |-> FALSE]
    /\ after = [p \in Procs |-> FALSE]
    /\ r_file = Missing
    /\ r_op = "none"
    /\ r_want = NULL
    /\ r_res = NoRet
    /\ faults = 0

\* alarm-button-on or alarm-button-off is started, with or without --debug.
ButtonInit ==
    /\ b_opts \in [DesiredState : BOOLEAN, Debug : BOOLEAN]
    /\ b_pc = "start"
    /\ b_ctx = "live"
    /\ b_tick = "none"
    /\ b_resp = NoResp
    /\ b_ret = NotReturned
    /\ b_log = NoButtonLog

\* alarm-checker is started, with or without --debug.
CheckerInit ==
    /\ k_debug \in BOOLEAN
    /\ k_pc = "start"
    /\ k_ctx = "live"
    /\ k_tick = "none"
    /\ k_resp = NoResp
    /\ k_ret = NotReturned
    /\ k_log = NoCheckerLog

ServerNext ==
    \/ Start
    \/ FleetStop
    \/ \E e \in BOOLEAN : \E writeOk \in BOOLEAN : OtherSet(e, writeOk)

ButtonNext ==
    \/ \E ok \in BOOLEAN : ButtonSetup(ok)
    \/ ButtonFirst
    \/ \E writeOk \in BOOLEAN : ButtonServe(writeOk)
    \/ ButtonFail
    \/ \E shutdownOk \in BOOLEAN : ButtonAnswer(shutdownOk)
    \/ \E case \in {"done", "tick"} : ButtonSelect(case)
    \/ ButtonTick
    \/ ButtonCancel

CheckerNext ==
    \/ \E ok \in BOOLEAN : CheckerSetup(ok)
    \/ \E case \in {"done", "tick"} : CheckerSelect(case)
    \/ CheckerServe
    \/ CheckerFail
    \/ \E shutdownOk \in BOOLEAN : CheckerAnswer(shutdownOk)
    \/ CheckerTick
    \/ CheckerCancel

\* A button client and the server, which stops, restarts and fails to
\* write; the network fails.
ButtonSpecInit == ServerInit /\ ButtonInit /\ CheckerOff /\ ConfigOff /\ UpdateOff

ButtonSpec == ButtonSpecInit /\ [][Start \/ FleetStop \/ ButtonNext]_vars

\* A checker, the server and the writes of other workstations.
CheckerSpecInit == ServerInit /\ ButtonOff /\ CheckerInit /\ ConfigOff /\ UpdateOff

CheckerSpec == CheckerSpecInit /\ [][ServerNext \/ CheckerNext]_vars

\* The steps of client.Run itself.
ButtonRun ==
    \/ \E ok \in BOOLEAN : ButtonSetup(ok)
    \/ ButtonFirst
    \/ \E case \in {"done", "tick"} : ButtonSelect(case)
    \/ \E shutdownOk \in BOOLEAN : ButtonAnswer(shutdownOk)

\* The steps of checker.Run itself.
CheckerRun ==
    \/ \E ok \in BOOLEAN : CheckerSetup(ok)
    \/ \E case \in {"done", "tick"} : CheckerSelect(case)
    \/ \E shutdownOk \in BOOLEAN : CheckerAnswer(shutdownOk)

\* A button client and a checker, both with debug on so that neither loop
\* ends in a shutdown, with the server; the loops end by cancellation or,
\* for the button client, by a confirmation.
LoopsInit ==
    /\ ServerInit /\ ButtonInit /\ CheckerInit
    /\ b_opts.Debug = TRUE /\ k_debug = TRUE
    /\ ConfigOff /\ UpdateOff

LoopsSpec == LoopsInit /\ [][Start \/ ButtonNext \/ CheckerNext]_vars

\* An RPC whose context is canceled returns its error.
ButtonAbort == CallCtx(b_ctx) = "canceled" /\ ButtonFail
CheckerAbort == CallCtx(k_ctx) = "canceled" /\ CheckerFail

\* The states in which client.Run and checker.Run can take a step of their
\* own: everywhere but in a select with no case ready and in an RPC.
ButtonCanRun ==
    \/ b_pc \in {"start", "first", "answered"}
    \/ b_pc = "select" /\ SelectCases(b_ctx, b_tick) # {}
CheckerCanRun ==
    \/ k_pc \in {"start", "answered"}
    \/ k_pc = "select" /\ SelectCases(k_ctx, k_tick) # {}

\* The two loops under fair scheduling of their processes: each runs when
\* it can, and a canceled RPC returns. Weak fairness of ButtonRun,
\* ButtonAbort, CheckerRun and CheckerAbort, with the conditions under
\* which they can step written out.
LoopsFair ==
    /\ []<>(~ButtonCanRun) \/ []<><<ButtonRun>>_vars
    /\ []<>(~(b_pc \in {"call", "answered", "lost"} /\ CallCtx(b_ctx) = "canceled"))
          \/ []<><<ButtonAbort>>_vars
    /\ []<>(~CheckerCanRun) \/ []<><<CheckerRun>>_vars
    /\ []<>(~(k_pc \in {"call", "answered", "lost"} /\ CallCtx(k_ctx) = "canceled"))
          \/ []<><<CheckerAbort>>_vars

LoopsLive == LoopsSpec /\ LoopsFair

\* The server is started when it is down, and it handles the request it
\* has received from the checker: weak fairness of Start and of
\* CheckerServe, with the conditions under which they can step written out.
CheckerServerFair ==
    /\ []<>(srv # "stopped") \/ []<><<Start>>_vars
    /\ []<>(~(k_pc = "call" /\ srv = "running")) \/ []<><<CheckerServe>>_vars

\* The checker under fair scheduling: the process runs, time passes, the
\* server is started when it is down and answers a request it has received
\* once the network has stopped failing.
CheckerLive ==
    /\ CheckerSpec
    /\ WF_vars(CheckerRun)
    /\ WF_vars(CheckerTick)
    /\ CheckerServerFair

\* ------------------------------------------------------------ properties
\* The State the server holds, by value, in the heaps st and as.
ServerVal(st, as, ss) == StateVal(st, as, ss)

\* The last SetAlarmState of this run of the server, if it persisted.
LastSetOk == hist.set # NULL /\ ~hist.set.old /\ hist.set.ok

\* The last SetAlarmState happened before the last restart and persisted.
LastSetOkBeforeRestart == hist.set # NULL /\ hist.set.old /\ hist.set.ok

\* p's GetAlarmState has just returned.
GetDone(p) == pc[p] = "done" /\ IsGet(req[p])

\* p's SetAlarmState has just returned from the service.
SetDone(p) == pc[p] = "done" /\ IsSet(req[p]) /\ ~Rejected(req[p])

\* C1: a GetAlarmState that returns when the last SetAlarmState has
\* succeeded returns the is_enabled of that call and, by value, its actor,
\* whatever the state was before and whatever callers did to the actors and
\* States they hold.
C1_GetReturnsLastSet ==
    \A p \in Procs :
        (GetDone(p) /\ LastSetOk) =>
            /\ resp[p].code = OK
            /\ resp[p].msg.IsEnabled = hist.set.val.IsEnabled
            /\ resp[p].msg.LastActor = hist.set.val.LastActor

\* C1 witness: a Get returns disabled by h2 after writes of both values.
C1_Witness ==
    \E p \in Procs :
        /\ GetDone(p) /\ LastSetOk
        /\ resp[p].msg.IsEnabled = FALSE
        /\ resp[p].msg.LastActor = MkActor("h2", "u2")

\* C2: the step of a SetAlarmState whose save fails leaves the State in
\* memory as it was before the call.
C2_FailedSaveKeepsMemory ==
    [][\A p \in Procs :
          (pc[p] = "set_lock" /\ pc'[p] = "done" /\ resp'[p].code = Internal) =>
              ServerVal(states', actors', s_state') = ServerVal(states, actors, s_state)]_vars

\* C3: when the save of a SetAlarmState fails, the service returns an error
\* and no State, and the handler answers Internal without a message.
C3_SaveFailureSurfaced ==
    \A p \in Procs :
        (SetDone(p) /\ hist.set # NULL /\ ~hist.set.ok) =>
            /\ ret[p].err # NoErr
            /\ ret[p].state = NULL
            /\ resp[p] = Answer(Internal, NULL)

\* C3 witness: a SetAlarmState has returned after a failed write that left
\* the file truncated.
C3_Witness ==
    \E p \in Procs :
        /\ SetDone(p) /\ hist.set # NULL /\ ~hist.set.ok
        /\ file = Garbage
        /\ resp[p].code = Internal

\* C4: the step that receives a SetAlarmState request that is nil or has no
\* actor answers InvalidArgument at once, without calling the service, and
\* leaves the State in memory, the heaps and the state file as they were.
C4_InvalidRequestChangesNothing ==
    [][\A p \in Procs :
          (pc[p] = "idle" /\ pc'[p] # "idle" /\ ~IsGet(req'[p])
              /\ GetActor(req'[p]) = NULL) =>
              /\ pc'[p] = "done"
              /\ resp'[p] = Answer(InvalidArgument, NULL)
              /\ ret'[p] = NoRet
              /\ actor'[p] = 0
              /\ UNCHANGED <<s_state, states, actors, file, hist, mu>>]_vars

\* C4 witness: a request without actor was rejected while the alarm was
\* enabled by an earlier write.
C4_Witness ==
    \E p \in Procs :
        /\ pc[p] = "done"
        /\ req[p] = SetRequest(NULL, TRUE)
        /\ resp[p].code = InvalidArgument
        /\ LastSetOk /\ hist.set.val.IsEnabled

\* The States a reader may be given: the one installed at startup while
\* nothing has been written, else the one of the latest SetAlarmState.
WholeStates ==
    (IF hist.startup # NULL THEN {hist.startup} ELSE {})
        \cup (IF hist.set # NULL /\ ~hist.set.old THEN {hist.set.val} ELSE {})

\* C5: every State returned by GetAlarmState is the startup State or the
\* whole {timestamp, actor, is_enabled} of one SetAlarmState call.
C5_ReadsAreWhole ==
    \A p \in Procs : GetDone(p) => ret[p].state \in WholeStates

\* C5 witness: a Get returns a written State while a SetAlarmState of the
\* other caller is waiting for the lock.
C5_Witness ==
    \E p \in Procs : \E q \in Procs \ {p} :
        /\ GetDone(p)
        /\ pc[q] = "set_lock"
        /\ hist.set # NULL /\ ~hist.set.old
        /\ ret[p].state = hist.set.val

\* Two States agree on is_enabled, the actor and the instant.
SameState(a, b) ==
    /\ a.IsEnabled = b.IsEnabled
    /\ a.LastActor = b.LastActor
    /\ SameInstant(a.Timestamp, b.Timestamp)

\* No SetAlarmState is in flight.
NoSetInFlight == \A p \in Procs : pc[p] \notin {"set_lock", "set_clone"}

\* C6: when no SetAlarmState is in flight and the last one to write has
\* persisted, the state file and the State in memory both hold that call's
\* State.
C6_LastPersistedWins ==
    (srv = "running" /\ NoSetInFlight /\ LastSetOk) =>
        /\ Load(file).err = NoErr
        /\ SameState(Load(file).state, hist.set.val)
        /\ SameState(ServerVal(states, actors, s_state), hist.set.val)

\* C6 witness: a SetAlarmState that waited while another one persisted and
\* returned has itself persisted and returned, with a different State.
C6_Witness ==
    \E p \in Procs :
        /\ SetDone(p) /\ after[p] /\ resp[p].code = OK
        /\ NoSetInFlight /\ LastSetOk
        /\ hist.set.val.LastActor = MkActor("h2", "u2")
        /\ ~hist.set.val.IsEnabled

\* A step of p is a write of SetAlarmState.
IsWrite(p) == pc[p] = "set_lock" /\ pc'[p] # "set_lock"

\* C7: only a SetAlarmState write (or the start of the server) changes the
\* State in memory or the state file, so GetAlarmState changes neither; a
\* State returned by GetAlarmState with no write since is equal by value to
\* the server's State but shares no object with it or with another
\* returned State; and a write by its holder changes neither the server's
\* State nor the State another caller holds.
C7_GetIsPureAndCopies ==
    [][/\ (ServerVal(states', actors', s_state') # ServerVal(states, actors, s_state)
              \/ file' # file)
          => (srv' # srv \/ \E p \in Procs : IsWrite(p))
       /\ \A p \in Procs :
            (pc'[p] \in {"done", "held"} /\ IsGet(req'[p]) /\ fresh'[p]) =>
                /\ StateVal(states', actors', result'[p])
                      = ServerVal(states', actors', s_state')
                /\ result'[p] # s_state'
                /\ states'[result'[p]].LastActor # 0
                      => states'[result'[p]].LastActor # states'[s_state'].LastActor
                /\ \A q \in Procs \ {p} :
                      (pc'[q] = "held" /\ result'[q] # 0) =>
                          /\ result'[q] # result'[p]
                          /\ states'[result'[p]].LastActor # 0
                                => states'[result'[p]].LastActor
                                      # states'[result'[q]].LastActor
       /\ \A q \in Procs :
            (pc[q] = "held" /\ pc'[q] = "held" /\ states'[result[q]] # Free
                /\ (fresh'[q] = fresh[q] \/ \E p \in Procs : IsWrite(p))) =>
                StateVal(states', actors', result'[q])
                    = StateVal(states, actors, result[q])]_vars

\* C7 witness: two callers hold States read with no write between; one has
\* written to its State and its actor, the other's State still equals the
\* server's.
C7_Witness ==
    \E p \in Procs : \E q \in Procs \ {p} :
        /\ pc[p] = "held" /\ pc[q] = "held"
        /\ fresh[q]
        /\ StateVal(states, actors, result[q]) = ServerVal(states, actors, s_state)
        /\ states[result[q]].LastActor # 0
        /\ states[result[p]].LastActor # 0
        /\ actors[states[result[p]].LastActor].Hostname = "changed"

\* C8: a GetAlarmState that returns after a restart and before any new
\* write, when the last SetAlarmState before the restart had succeeded,
\* returns that call's is_enabled and actor.
C8_StateSurvivesRestart ==
    \A p \in Procs :
        (GetDone(p) /\ LastSetOkBeforeRestart) =>
            /\ resp[p].code = OK
            /\ resp[p].msg.IsEnabled = hist.set.val.IsEnabled
            /\ resp[p].msg.LastActor = hist.set.val.LastActor

\* C8 witness: after a restart a Get returns the alarm enabled by h1.
C8_Witness ==
    \E p \in Procs :
        /\ GetDone(p) /\ LastSetOkBeforeRestart
        /\ resp[p].msg.IsEnabled
        /\ resp[p].msg.LastActor = MkActor("h1", "u1")

\* C9: a Load that follows a successful Save returns a State with the same
\* is_enabled, the same actor (nil for nil) and a timestamp of the same
\* second, zero for zero.
C9_SaveLoadRoundTrip ==
    (r_op = "load" /\ r_want # NULL) =>
        /\ r_res.err = NoErr
        /\ r_res.state.IsEnabled = r_want.IsEnabled
        /\ r_res.state.LastActor = r_want.LastActor
        /\ SameSecond(r_res.state.Timestamp, r_want.Timestamp)
        /\ IsZero(r_want.Timestamp) => IsZero(r_res.state.Timestamp)

\* C9 witness: a State with a nanosecond fraction, a monotonic reading and
\* an empty actor has been saved and loaded.
C9_Witness ==
    /\ r_op = "load" /\ r_want # NULL
    /\ r_want.Timestamp.nsec = 7 /\ r_want.Timestamp.mono
    /\ r_want.LastActor = MkActor("", "")
    /\ r_res.state.Timestamp.nsec = 7

\* C10: Load returns no State and ErrNotFound when the file does not exist,
\* and only then; on a file that cannot be read or decoded it returns no
\* State and another error.
C10_NotFoundIsDistinguished ==
    r_op = "load" =>
        /\ r_file = Missing => r_res = [state |-> NULL, err |-> ErrNotFound]
        /\ r_file # Missing => r_res.err # ErrNotFound
        /\ r_file \in {Unreadable, Garbage} =>
              (r_res.state = NULL /\ r_res.err \notin {NoErr, ErrNotFound})

\* C10 witness: Load has run on a path without file.
C10_Witness ==
    r_op = "load" /\ r_file = Missing /\ r_res.err = ErrNotFound

\* C11: a start of the server installs the loaded State when Load succeeds
\* and the default State (disabled, no actor, the current time) when Load
\* reports not-found; on any other error of Load the start fails, no service
\* exists and no request is handled until a later start succeeds.
C11_StartupState ==
    [][/\ srv # "running" =>
            LET ld == Load(file)
            IN /\ (ld.err = NoErr /\ srv' = "running") =>
                      ServerVal(states', actors', s_state') = ld.state
               /\ (ld.err = ErrNotFound /\ srv' = "running") =>
                      ServerVal(states', actors', s_state') = MkState(Now, NULL, FALSE)
               /\ ld.err \notin {NoErr, ErrNotFound} =>
                      (srv' # "running" /\ s_state' = 0 /\ pc' = pc)
               /\ (ld.err \in {NoErr, ErrNotFound} /\ clock' # clock) =>
                      srv' = "running"
       /\ srv = "failed" =>
            (s_state = 0 /\ \A p \in Procs : pc[p] = "idle")]_vars

\* C11 witness: a start has failed on a state file that a failed write left
\* undecodable.
C11_Witness == srv = "failed" /\ file = Garbage /\ hist.set # NULL

\* C12: client.Run makes its first attempt at once after the setup and then
\* one attempt for every tick it takes from the ticker, no attempt without
\* one; and it returns nil only after it received a SetAlarmState response
\* whose is_enabled is the desired state.
C12_AttemptPerTickConfirmedSuccess ==
    [][/\ b_log'.attempts # b_log.attempts =>
            \/ b_pc = "first"
            \/ b_pc = "select" /\ b_tick = "full" /\ b_tick' = "empty"
       /\ (b_pc = "first" /\ b_pc' # "first") => b_log'.attempts = 1
       /\ (b_tick = "full" /\ b_tick' = "empty" /\ b_log.attempts < MaxAttempts) =>
            b_log'.attempts = b_log.attempts + 1
       /\ b_ret' = NoErr => b_log'.confirmed]_vars

\* C12 witness: Run has returned nil on its third attempt, the second on a
\* tick.
C12_Witness ==
    /\ b_ret = NoErr /\ b_log.confirmed
    /\ b_log.attempts = b_log.taken + 1 /\ b_log.taken >= 2

\* The server is started when it is down, and it handles the request it
\* has received from the button client: weak fairness of Start and of
\* ButtonServe(TRUE), with the conditions under which they can step
\* written out.
ButtonServerFair ==
    /\ []<>(srv # "stopped") \/ []<><<Start>>_vars
    /\ []<>(~(b_pc = "call" /\ srv = "running")) \/ []<><<ButtonServe(TRUE)>>_vars

\* The button client under fair scheduling: the process runs, time passes,
\* the server is started when it is down and answers a request it has
\* received once network and disk have stopped failing.
ButtonLive ==
    /\ ButtonSpec
    /\ WF_vars(ButtonRun)
    /\ WF_vars(ButtonTick)
    /\ ButtonServerFair

C14_CancelBeforeConfirmIsError ==
    (b_log.early /\ b_pc = "returned") =>
        /\ b_ret \in {ErrCanceled, ErrSetup}
        /\ b_log.attempts > 0 => b_ret = ErrCanceled
        /\ ExitCode(b_ret) = 1
        /\ ~b_log.confirmed

\* C14 witness: Run was canceled while its second attempt was in flight and
\* has returned the cancellation error.
C14_Witness ==
    /\ b_log.early /\ b_pc = "returned" /\ b_ret = ErrCanceled
    /\ b_log.attempts >= 2 /\ b_log.late = 0

\* C15: the button client calls power.Shutdown at most once, and only with
\* DesiredState true, Debug false and after a response that reports the
\* alarm enabled; when Run returns from such a confirmation it has called it
\* exactly once. With DesiredState false or Debug true it never calls it.
C15_ButtonShutdownOnlyOnConfirmedEnable ==
    /\ b_log.shutdowns <= 1
    /\ b_log.shutdowns = 1 =>
          (b_opts.DesiredState /\ ~b_opts.Debug /\ b_log.confirmed /\ b_pc = "returned")
    /\ (~b_opts.DesiredState \/ b_opts.Debug) => b_log.shutdowns = 0
    /\ (b_log.confirmed /\ b_opts.DesiredState /\ ~b_opts.Debug) => b_log.shutdowns = 1

\* C15 witness: alarm-button-on without debug has shut the machine down
\* after its second attempt was confirmed.
C15_Witness ==
    /\ b_log.shutdowns = 1 /\ b_ret = NoErr
    /\ b_log.attempts >= 2

\* C16: a checker with debug on never calls power.Shutdown, whatever the
\* server reports; every tick it takes starts a poll, which is an RPC while
\* its context is live; it leaves the loop only when its context is
\* canceled, and Run then returns nil.
C16_DebugCheckerOnlyPolls ==
    /\ [](k_debug =>
            /\ k_log.shutdowns = 0
            /\ k_pc = "returned" =>
                  (k_ret = ErrSetup \/ (k_ret = NoErr /\ k_ctx = "canceled")))
    /\ [][(k_debug /\ k_tick = "full" /\ k_tick' = "empty") =>
            /\ k_ctx = "live" => k_pc' = "call"
            /\ k_ctx = "canceled" => k_log'.late = k_log.late + 1]_vars

\* C16 witness: a checker with debug on has seen the alarm enabled in two
\* polls, was canceled and has returned nil.
C16_Witness ==
    /\ k_debug /\ k_log.enabled >= 2 /\ k_log.shutdowns = 0
    /\ k_pc = "returned" /\ k_ret = NoErr /\ k_ctx = "canceled"

\* C17 as stated: a checker with debug off calls power.Shutdown on the
\* polls that report the alarm enabled and on no other, at most once, and
\* has left the loop once it has called it.
C17_ShutdownExactlyOnce ==
    ~k_debug =>
        /\ k_log.shutdowns = k_log.enabled
        /\ k_log.shutdowns <= 1
        /\ k_log.shutdowns = 1 => (k_pc = "returned" /\ k_log.extra = 0)

\* C17 amended: a checker with debug off calls power.Shutdown on every poll
\* that reports the alarm enabled and on no other. Once the command has
\* started, Run has returned nil and no further poll is made; the command is
\* started at most once. While power.Shutdown fails, the checker stays in
\* the loop.
C17_ShutdownUntilStarted ==
    ~k_debug =>
        /\ k_log.shutdowns = k_log.enabled
        /\ k_log.started <= 1
        /\ k_log.started = 1 =>
              (k_pc = "returned" /\ k_ret = NoErr /\ k_log.extra = 0)
        /\ (k_log.started = 0 /\ k_pc = "returned") =>
              (k_ret = ErrSetup \/ k_ctx = "canceled")

\* C17 witness: the shutdown command failed on one poll and started on the
\* next; the checker has returned.
C17_Witness ==
    /\ ~k_debug /\ k_log.shutdowns = 2 /\ k_log.started = 1
    /\ k_pc = "returned" /\ k_ret = NoErr

\* C18: a poll that fails (the RPC or the shutdown command returns an
\* error) leaves the checker in its loop, however many polls have failed in
\* a row, and the next tick it takes starts another poll; Run returns only
\* after a cancellation or after the shutdown command has started (or from a
\* failed setup).
C18_FailedPollKeepsPolling ==
    /\ [][/\ (k_log'.failures # k_log.failures /\ k_log'.failures # 0) =>
                (k_pc' = "select" /\ k_ret' = NotReturned)
          /\ (k_tick = "full" /\ k_tick' = "empty" /\ k_ctx = "live") =>
                k_pc' = "call"]_vars
    /\ [](k_pc = "returned" =>
            (k_ret = ErrSetup \/ k_ctx = "canceled" \/ k_log.started = 1))

\* C18 witness: after three failed polls in a row the checker, not
\* canceled, polls again.
C18_Witness ==
    /\ k_log.failures >= 3 /\ k_pc = "call" /\ k_ctx = "live"

\* C19: after its context is canceled a loop starts at most one more attempt
\* (the button client) or poll (the checker), the one whose tick was already
\* waiting, and then returns: no push or poll interval passes between the
\* cancellation and the return.
C19_CancelEndsLoopWithinOneTick ==
    /\ [](b_log.late <= 1 /\ k_log.late <= 1)
    /\ (b_ctx = "canceled") ~> (b_pc = "returned")
    /\ (k_ctx = "canceled") ~> (k_pc = "returned")

\* C19 witness: both loops were canceled with a tick waiting, made one more
\* attempt and returned.
C19_Witness ==
    /\ b_log.late = 1 /\ b_pc = "returned" /\ b_ret = ErrCanceled
    /\ k_log.late = 1 /\ k_pc = "returned" /\ k_ret = NoErr

\* The last SetAlarmState the server handled enabled the alarm and was
\* persisted.
LastWriteOn == hist.set # NULL /\ hist.set.ok /\ hist.set.val.IsEnabled

\* C20: from any state in which the last write has enabled the alarm and
\* succeeded, a checker with debug off that runs, is not canceled and whose
\* RPCs fail only finitely often calls power.Shutdown, unless another write
\* comes first; a restart of the server in between changes nothing.
C20_EnabledAlarmReachesChecker ==
    (LastWriteOn /\ ~k_debug /\ k_pc \notin {"off", "returned"} /\ k_log.shutdowns = 0)
        ~> (\/ k_log.shutdowns > 0
            \/ ~LastWriteOn
            \/ k_ctx = "canceled"
            \/ k_ret = ErrSetup)

\* C20 witness: the alarm was enabled, the server was restarted, and the
\* checker has called power.Shutdown.
C20_Witness ==
    /\ LastWriteOn /\ hist.set.old
    /\ ~k_debug /\ k_log.shutdowns > 0 /\ k_ctx = "live"

\* ------------------------------------------------------ internal/config
\* A string is the sequence of its characters. A server address is written
\* with h (a letter of a host name the resolver knows), x (a letter of a
\* name it does not know), 1 (a digit), p (a letter of a port word that is
\* no service name) and the colon; an update folder with s (a letter), the
\* colon and the slash.
AddrChars == {"h", "x", "1", "p", ":"}
UriChars == {"s", ":", "/"}

\* Longest server address and longest update folder.
MaxAddrLen == 3
MaxUriLen == 2

Strings(chars, n) == UNION {[1..k -> chars] : k \in 0..n}

\* config.DefaultTimeout, in seconds.
DefaultTimeout == 5
DefaultStateFilename == "alarm-button-state.json"
DefaultConfigFilename == "alarm-button-settings.yaml"

ErrServerSocketRequired == "server address must be provided"
ErrInvalidSocket == "invalid server socket"
ErrInvalidURI == "invalid update folder URI"

\* config.Config; Timeout in seconds, 0 when unset; StateFile "" when unset.
MkConfig(addr, folder, stateFile, timeout) ==
    [ServerAddress |-> addr, ServerUpdateFolder |-> folder,
     StateFile |-> stateFile, Timeout |-> timeout]

Colons(s) == {i \in 1..Len(s) : s[i] = ":"}

\* net.SplitHostPort: the text before and after the only colon.
SplitHostPort(addr) ==
    IF Cardinality(Colons(addr)) # 1
    THEN [host |-> <<>>, port |-> <<>>, err |-> ErrInvalidSocket]
    ELSE LET i == CHOOSE k \in Colons(addr) : TRUE
         IN  [host |-> SubSeq(addr, 1, i - 1),
              port |-> SubSeq(addr, i + 1, Len(addr)),
              err |-> NoErr]

\* The resolver's port lookup: a number (the empty port is 0) is a port, a
\* word has to be a service name, and none of the words here is one.
LookupPort(port) == \A i \in 1..Len(port) : port[i] = "1"

\* The resolver's host lookup: the empty host is the wildcard address, a name
\* has to be known.
LookupHost(host) == \A i \in 1..Len(host) : host[i] = "h"

\* net.ResolveTCPAddr("tcp", addr): its error.
ResolveTCPAddr(addr) ==
    LET hp == SplitHostPort(addr)
    IN  IF hp.err # NoErr THEN hp.err
        ELSE IF ~LookupPort(hp.port) THEN ErrInvalidSocket
        ELSE IF ~LookupHost(hp.host) THEN ErrInvalidSocket
        ELSE NoErr

\* url.getScheme: the letters before the first colon, if a colon ends them.
GetScheme(raw) ==
    LET stops == {i \in 1..Len(raw) : raw[i] # "s"}
    IN  IF stops = {} THEN [scheme |-> <<>>, rest |-> raw, err |-> NoErr]
        ELSE LET i == CHOOSE k \in stops : \A m \in stops : k <= m
             IN  IF raw[i] # ":"
                 THEN [scheme |-> <<>>, rest |-> raw, err |-> NoErr]
                 ELSE IF i = 1
                 THEN [scheme |-> <<>>, rest |-> raw, err |-> ErrInvalidURI]
                 ELSE [scheme |-> SubSeq(raw, 1, i - 1),
                       rest |-> SubSeq(raw, i + 1, Len(raw)),
                       err |-> NoErr]

\* url.ParseRequestURI(raw): its error. An absolute URI or an absolute path
\* is accepted.
ParseRequestURI(raw) ==
    IF raw = <<>> THEN ErrInvalidURI
    ELSE LET sc == GetScheme(raw)
         IN  IF sc.err # NoErr THEN sc.err
             ELSE IF Len(sc.rest) > 0 /\ sc.rest[1] = "/" THEN NoErr
             ELSE IF sc.scheme # <<>> THEN NoErr
             ELSE ErrInvalidURI

\* The defaults config.Validate fills in.
WithDefaults(settings) ==
    [settings EXCEPT
        !.Timeout = IF @ <= 0 THEN DefaultTimeout ELSE @,
        !.StateFile = IF @ = "" THEN DefaultStateFilename ELSE @]

\* A validation that does not look at the update folder.
ValidateNoFolderCheck(settings) ==
    IF settings.ServerAddress = <<>>
    THEN [cfg |-> settings, err |-> ErrServerSocketRequired]
    ELSE IF ResolveTCPAddr(settings.ServerAddress) # NoErr
    THEN [cfg |-> settings, err |-> ErrInvalidSocket]
    ELSE [cfg |-> WithDefaults(settings), err |-> NoErr]

\* config.Validate(settings): the settings as it leaves them, and its error.
Validate(settings) ==
    IF settings.ServerAddress = <<>>
    THEN [cfg |-> settings, err |-> ErrServerSocketRequired]
    ELSE IF ResolveTCPAddr(settings.ServerAddress) # NoErr
    THEN [cfg |-> settings, err |-> ErrInvalidSocket]
    ELSE IF settings.ServerUpdateFolder = <<>>
    THEN [cfg |-> WithDefaults(settings), err |-> NoErr]
    ELSE IF ParseRequestURI(settings.ServerUpdateFolder) # NoErr
    THEN [cfg |-> WithDefaults(settings), err |-> ErrInvalidURI]
    ELSE [cfg |-> WithDefaults(settings), err |-> NoErr]

\* The --state-file flag of alarm-server: cobra gives the variable the
\* flag's default when the option is absent.
FlagDefault == DefaultStateFilename
FlagValue(flag) == IF flag.given THEN flag.value ELSE FlagDefault

\* server.Run: the path of the state repository.
StateFilePath(settings, optsStateFile) ==
    IF optsStateFile # "" THEN optsStateFile ELSE settings.StateFile

SampleTimeouts == {-1, 0, 3}
SampleStateFiles == {"", "custom.json"}
SampleConfigs ==
    {MkConfig(a, f, sf, t) :
        a \in Strings(AddrChars, MaxAddrLen), f \in Strings(UriChars, MaxUriLen),
        sf \in SampleStateFiles, t \in SampleTimeouts}
SampleFlags ==
    {[given |-> FALSE, value |-> ""], [given |-> TRUE, value |-> "cli.json"]}

\* config.Validate on the configuration at hand, as config.Load,
\* config.Save and packager.Run call it.
ConfigValidate ==
    /\ c_res = "none"
    /\ c_cfg' = Validate(c_cfg).cfg
    /\ c_res' = Validate(c_cfg).err
    /\ UNCHANGED <<c_flag, c_repo, updVars, svcVars, repoVars, clientVars>>

\* server.Run after config.Load accepted the configuration: it chooses the
\* state file and builds the repository on it.
ServerRunStateFile ==
    /\ c_res = NoErr
    /\ c_repo = NULL
    /\ c_repo' = [path |-> StateFilePath(c_cfg, FlagValue(c_flag))]
    /\ UNCHANGED <<c_cfg, c_flag, c_res, updVars, svcVars, repoVars, clientVars>>

ConfigInit ==
    /\ ServerInit /\ ButtonOff /\ CheckerOff /\ UpdateOff
    /\ c_cfg \in SampleConfigs
    /\ c_flag \in SampleFlags
    /\ c_res = "none"
    /\ c_repo = NULL

ConfigSpec == ConfigInit /\ [][ConfigValidate \/ ServerRunStateFile]_vars

\* C21: config.Validate accepts a configuration exactly when server_addr is
\* present and resolves as host:port and update_folder is empty or a valid
\* request URI; an accepted configuration has a non-positive timeout
\* replaced by the default of 5 s and an unset state_file by the default
\* filename, and its other fields and set values are kept.
C21_ValidateAcceptsAndDefaults ==
    [][ConfigValidate =>
        /\ (c_res' = NoErr) <=>
              /\ c_cfg.ServerAddress # <<>>
              /\ ResolveTCPAddr(c_cfg.ServerAddress) = NoErr
              /\ \/ c_cfg.ServerUpdateFolder = <<>>
                 \/ ParseRequestURI(c_cfg.ServerUpdateFolder) = NoErr
        /\ (c_res' = NoErr) =>
              /\ c_cfg'.ServerAddress = c_cfg.ServerAddress
              /\ c_cfg'.ServerUpdateFolder = c_cfg.ServerUpdateFolder
              /\ c_cfg'.Timeout = IF c_cfg.Timeout <= 0 THEN 5 ELSE c_cfg.Timeout
              /\ c_cfg'.StateFile = IF c_cfg.StateFile = ""
                                    THEN "alarm-button-state.json"
                                    ELSE c_cfg.StateFile]_vars

\* An accepted configuration that had neither timeout nor state file and
\* names an update folder.
C21_Witness ==
    /\ c_res = NoErr
    /\ c_cfg.ServerUpdateFolder # <<>>
    /\ c_cfg.Timeout = DefaultTimeout
    /\ c_cfg.StateFile = DefaultStateFilename

\* C25: the alarm server persists state to the state_file of the
\* configuration unless the --state-file option is given; only when it is
\* given does its value replace the configured path.
C25_StateFileFromConfigUnlessOption ==
    c_repo # NULL =>
        c_repo.path = IF c_flag.given THEN c_flag.value ELSE c_cfg.StateFile

\* --------------------------------------------- internal/service/updater
\* File names of the installation (not Windows: no extension).
ButtonOnFile == "alarm-button-on"
ButtonOffFile == "alarm-button-off"
CheckerFile == "alarm-checker"
ServerFile == "alarm-server"
UpdaterFile == "alarm-updater"

\* Role tables that give the client the packager as well.
AllowedUserRolesWithPackager ==
    [client |-> <<ButtonOnFile, CheckerFile, UpdaterFile, "alarm-packager",
                  DefaultConfigFilename>>,
     server |-> <<ButtonOffFile, ServerFile, UpdaterFile, DefaultConfigFilename>>]

\* updater.AllowedUserRoles: the files of each role.
AllowedUserRoles ==
    [client |-> <<ButtonOnFile, CheckerFile, UpdaterFile, DefaultConfigFilename>>,
     server |-> <<ButtonOffFile, ServerFile, UpdaterFile, DefaultConfigFilename>>]

\* updater.ExecutablesByUserRoles: the executable started for each role.
ExecutablesByUserRoles == [client |-> CheckerFile, server |-> ServerFile]

\* updater.FilesWithChecksum: the files the packager hashes, in order.
FilesWithChecksum ==
    <<ButtonOffFile, ButtonOnFile, CheckerFile, ServerFile, UpdaterFile,
      DefaultConfigFilename>>

Range(s) == {s[i] : i \in 1..Len(s)}
FileNames == Range(FilesWithChecksum)

\* A file is Missing or has a content; os.Create leaves the empty content.
File(data) == [kind |-> "file", data |-> data]
FileContents == {File("v1"), File("v2")}
EmptyFile == File("")

\* A []byte is nil (NULL), empty, or the SHA-512 sum of a content.
EmptyBytes == [len |-> 0]
Sum512(content) == [sha512 |-> content.data]

\* bytes.Equal: nil and the empty slice are equal.
BytesEqual(a, b) ==
    (IF a = NULL THEN EmptyBytes ELSE a) = (IF b = NULL THEN EmptyBytes ELSE b)

\* base64.StdEncoding: the text of a []byte, and back; a text that is no
\* base64 has no bytes.
EncodeToString(b) == [b64 |-> b]
BadBase64 == [text |-> "%"]
DecodeString(s) ==
    IF "b64" \in DOMAIN s
    THEN [bytes |-> s.b64, err |-> NoErr]
    ELSE [bytes |-> NULL, err |-> "illegal base64 data"]

\* The manifest as YAML text, and back.
MarshalDesc(desc) == [yaml |-> desc]
UnmarshalDesc(doc) == doc.yaml

ErrUpdaterAlreadyRunning == "the updater is already running"
ErrEmptyDescription == "update description is empty"
ErrNoRoleFiles == "unable to find files for role"
ErrNoChecksum == "checksum missing for file"
ErrBadHTTPStatus == "unexpected http status"
ErrNoRoleExecutable == "unable to find executable for role"
ErrChecksumMismatch == "updated file has wrong checksum"
ErrEnv == "operating system or network error"

\* updater.GetFileChecksum of a file that exists.
GetFileChecksum(content) == Sum512(content)

\* runner.getServerChecksum(fileName).
getServerChecksum(desc, f) ==
    IF f \notin DOMAIN desc.Files
    THEN [bytes |-> NULL, err |-> ErrNoChecksum]
    ELSE DecodeString(desc.Files[f])

\* runner.getClientChecksum(fileName): nil for a file that does not exist.
getClientChecksum(fs, f) ==
    IF fs[f] = Missing THEN NULL ELSE GetFileChecksum(fs[f])

\* runner.validateFileChecksum(fileName): [needsUpdate, err].
validateFileChecksum(desc, fs, f) ==
    LET sc == getServerChecksum(desc, f)
    IN  IF sc.err # NoErr THEN [needsUpdate |-> FALSE, err |-> sc.err]
        ELSE [needsUpdate |-> ~BytesEqual(sc.bytes, getClientChecksum(fs, f)),
              err |-> NoErr]

\* The loop of runner.validateChecksum over the role's files from the i-th
\* on: it stops at the first error and at the first file that needs an
\* update.
RECURSIVE validateFrom(_, _, _, _)
validateFrom(desc, fs, files, i) ==
    IF i > Len(files) THEN [needed |-> FALSE, err |-> NoErr]
    ELSE LET v == validateFileChecksum(desc, fs, files[i])
         IN  IF v.err # NoErr THEN [needed |-> FALSE, err |-> v.err]
             ELSE IF v.needsUpdate THEN [needed |-> TRUE, err |-> NoErr]
             ELSE validateFrom(desc, fs, files, i + 1)

\* runner.validateChecksum: [needed (IsUpdateNeeded), err].
validateChecksum(desc, role, fs) ==
    IF desc = NULL THEN [needed |-> FALSE, err |-> ErrEmptyDescription]
    ELSE IF role \notin DOMAIN desc.Roles
    THEN [needed |-> FALSE, err |-> ErrNoRoleFiles]
    ELSE validateFrom(desc, fs, desc.Roles[role], 1)

\* runner.compareVersions(localVersion, remoteVersion).
compareVersions(localVersion, remoteVersion) ==
    IF localVersion = "" THEN TRUE
    ELSE localVersion # remoteVersion

\* goupdate.Apply(data, Options{Checksum, Hash: SHA512}): the content is
\* verified before the target is touched.
ApplyUnverified(data, checksum) == NoErr

Apply(data, checksum) ==
    IF GetFileChecksum(data) = checksum THEN NoErr ELSE ErrChecksumMismatch

\* The body of the loop of runner.updateFiles for one downloaded file:
\* the file as it leaves it, and its error. A file that does not exist is
\* created empty before the update is applied.
updateFile(desc, fs, f, data) ==
    IF f \notin DOMAIN desc.Files THEN [file |-> fs[f], err |-> ErrNoChecksum]
    ELSE LET dc == DecodeString(desc.Files[f])
             target == IF fs[f] = Missing THEN EmptyFile ELSE fs[f]
         IN  IF dc.err # NoErr THEN [file |-> fs[f], err |-> dc.err]
             ELSE IF Apply(data, dc.bytes) # NoErr
             THEN [file |-> target, err |-> Apply(data, dc.bytes)]
             ELSE [file |-> data, err |-> NoErr]

\* runner.startRequiredExecutables: the executable of the role, if the
\* manifest names one.
roleExecutable(desc, role) ==
    IF desc = NULL THEN [name |-> "", err |-> ErrEmptyDescription]
    ELSE IF role \notin DOMAIN desc.Executables
    THEN [name |-> "", err |-> ErrNoRoleExecutable]
    ELSE [name |-> desc.Executables[role], err |-> NoErr]

\* ------------------------------------------------- updater.Run, step by step
Updaters == {"u1", "u2"}
UpdateRole == "client"
RemoteVersion == "2.0"
LocalVersions == {"", "1.0", "2.0"}

\* An updater that has not been started. created: it created the marker;
\* pending: the downloaded files updateFiles has not visited yet; the log
\* is history: what it did, and what was the case when it did it.
NoUpdaterLog ==
    [terminated |-> FALSE, fetched |-> FALSE, validated |-> FALSE,
     downloads |-> 0, applied |-> {}, starts |-> 0]
IdleUpdater ==
    [pc |-> "idle", err |-> NoErr, created |-> FALSE, desc |-> NULL,
     localVersion |-> "", needed |-> FALSE, downloaded |-> NULL,
     pending |-> {}, log |-> NoUpdaterLog]

\* Where an updater is between passing the marker check and the end of
\* its run.
PastCheck == {"create", "load", "reach", "terminate", "detect", "fetch",
              "decide", "download", "apply", "start", "cleanup"}
InWorkflow == {"terminate", "detect", "fetch", "decide", "download",
               "apply", "start", "cleanup"}

\* updater.Run returns err without cleanup (newRunner failed).
ReturnEarly(r, err) == [r EXCEPT !.pc = "returned", !.err = err]

\* A runner that logs the error of a step and goes on to start the
\* executable.
FailButStart(r, err) == [r EXCEPT !.pc = "start", !.err = err]

\* A step of runner.Run fails: Run returns err after the deferred cleanup.
Fail(r, err) == [r EXCEPT !.pc = "cleanup", !.err = err]

\* The other updaters are killed where they stand (process kill by name).
KillOthers(run, p) ==
    [q \in Updaters |->
        IF q # p /\ run[q].pc \in PastCheck \cup {"check"}
        THEN [run[q] EXCEPT !.pc = "killed"] ELSE run[q]]

\* updater.IsUpdaterRunningNow: [running, marker, kills]. A marker younger
\* than markerLifetime means a running updater; an older one is removed
\* after the updaters found in the process list were killed.
IsUpdaterRunningNow(m, ok) ==
    IF m = "fresh" THEN [running |-> TRUE, marker |-> m, kills |-> FALSE]
    ELSE IF m = "stale"
    THEN IF ok THEN [running |-> FALSE, marker |-> "none", kills |-> TRUE]
         ELSE [running |-> TRUE, marker |-> m, kills |-> FALSE]
    ELSE [running |-> FALSE, marker |-> m, kills |-> FALSE]

\* alarm-updater is started.
UpdaterStart(p) ==
    /\ u_run[p].pc = "idle"
    /\ u_run' = [u_run EXCEPT ![p].pc = "check"]
    /\ UNCHANGED <<u_marker, u_local, u_remote, p_run, p_out,
                   cfgVars, svcVars, repoVars, clientVars>>

\* newRunner: the marker check.
UpdaterCheck(p, ok) ==
    /\ u_run[p].pc = "check"
    /\ LET c == IsUpdaterRunningNow(u_marker, ok)
           run == IF c.kills THEN KillOthers(u_run, p) ELSE u_run
       IN  /\ u_marker' = c.marker
           /\ u_run' = [run EXCEPT ![p] =
                  IF c.running THEN ReturnEarly(@, ErrUpdaterAlreadyRunning)
                  ELSE [@ EXCEPT !.pc = "create"]]
    /\ UNCHANGED <<u_local, u_remote, p_run, p_out,
                   cfgVars, svcVars, repoVars, clientVars>>

\* newRunner: os.Create(MarkerFilename) and Close.
UpdaterCreate(p, ok) ==
    /\ u_run[p].pc = "create"
    /\ u_marker' = IF ok THEN "fresh" ELSE u_marker
    /\ u_run' = [u_run EXCEPT ![p] =
           IF ok THEN [@ EXCEPT !.pc = "load", !.created = TRUE]
           ELSE ReturnEarly(@, ErrEnv)]
    /\ UNCHANGED <<u_local, u_remote, p_run, p_out,
                   cfgVars, svcVars, repoVars, clientVars>>

\* newRunner: config.Load.
UpdaterLoad(p, ok) ==
    /\ u_run[p].pc = "load"
    /\ u_run' = [u_run EXCEPT ![p] =
           IF ok THEN [@ EXCEPT !.pc = "reach"] ELSE ReturnEarly(@, ErrEnv)]
    /\ UNCHANGED <<u_marker, u_local, u_remote, p_run, p_out,
                   cfgVars, svcVars, repoVars, clientVars>>

\* newRunner: ensureServerReachable.
UpdaterReach(p, ok) ==
    /\ u_run[p].pc = "reach"
    /\ u_run' = [u_run EXCEPT ![p] =
           IF ok THEN [@ EXCEPT !.pc = "terminate"] ELSE ReturnEarly(@, ErrRpc)]
    /\ UNCHANGED <<u_marker, u_local, u_remote, p_run, p_out,
                   cfgVars, svcVars, repoVars, clientVars>>

\* prepareForUpdate: terminateAlarmButtonProcesses, which kills every
\* process named like a file of FilesWithChecksum but itself.
UpdaterTerminate(p, ok) ==
    /\ u_run[p].pc = "terminate"
    /\ u_run' = [(IF ok THEN KillOthers(u_run, p) ELSE u_run) EXCEPT ![p] =
           IF ok THEN [@ EXCEPT !.pc = "detect", !.log.terminated = TRUE]
           ELSE Fail(@, ErrEnv)]
    /\ UNCHANGED <<u_marker, u_local, u_remote, p_run, p_out,
                   cfgVars, svcVars, repoVars, clientVars>>

\* prepareForUpdate: detectAndSetLocalVersion. An executable that cannot
\* be run (it is missing, for one) gives the empty version, an output of
\* another form an error.
UpdaterDetect(p, version, ok) ==
    /\ u_run[p].pc = "detect"
    /\ u_local[CheckerFile] \in {Missing, EmptyFile} => version = ""
    /\ u_run' = [u_run EXCEPT ![p] =
           IF ok THEN [@ EXCEPT !.pc = "fetch", !.localVersion = version]
           ELSE Fail(@, ErrEnv)]
    /\ UNCHANGED <<u_marker, u_local, u_remote, p_run, p_out,
                   cfgVars, svcVars, repoVars, clientVars>>

\* prepareForUpdate: fillUpdateDescription.
UpdaterFetch(p, ok) ==
    /\ u_run[p].pc = "fetch"
    /\ u_run' = [u_run EXCEPT ![p] =
           IF ~ok THEN Fail(@, ErrEnv)
           ELSE IF u_remote.manifest = Missing THEN Fail(@, ErrBadHTTPStatus)
           ELSE [@ EXCEPT !.pc = "decide", !.log.fetched = TRUE,
                          !.desc = UnmarshalDesc(u_remote.manifest)]]
    /\ UNCHANGED <<u_marker, u_local, u_remote, p_run, p_out,
                   cfgVars, svcVars, repoVars, clientVars>>

\* Whether executeUpdateIfNeeded returns without an update.
NoUpdateRequired(versionUpdateNeeded, isUpdateNeeded) ==
    ~versionUpdateNeeded /\ ~isUpdateNeeded

\* determineUpdateNeeded and the test of executeUpdateIfNeeded.
UpdaterDecide(p) ==
    /\ u_run[p].pc = "decide"
    /\ LET r == u_run[p]
           versionUpdateNeeded ==
               compareVersions(r.localVersion, r.desc.VersionNumber)
           v == validateChecksum(r.desc, UpdateRole, u_local)
       IN  u_run' = [u_run EXCEPT ![p] =
               IF v.err # NoErr THEN Fail(@, v.err)
               ELSE [@ EXCEPT
                       !.pc = IF NoUpdateRequired(versionUpdateNeeded, v.needed)
                              THEN "start" ELSE "download",
                       !.needed = ~NoUpdateRequired(versionUpdateNeeded, v.needed),
                       !.log.validated = TRUE]]
    /\ UNCHANGED <<u_marker, u_local, u_remote, p_run, p_out,
                   cfgVars, svcVars, repoVars, clientVars>>

\* executeUpdateIfNeeded: downloadFiles, every file of the role into the
\* temporary directory.
UpdaterDownload(p, ok) ==
    /\ u_run[p].pc = "download"
    /\ LET files == Range(u_run[p].desc.Roles[UpdateRole])
       IN  u_run' = [u_run EXCEPT ![p] =
               IF ~ok THEN Fail(@, ErrEnv)
               ELSE IF \E f \in files : u_remote.blobs[f] = Missing
               THEN Fail(@, ErrBadHTTPStatus)
               ELSE [@ EXCEPT !.pc = "apply",
                              !.downloaded = [f \in files |-> u_remote.blobs[f]],
                              !.pending = files,
                              !.log.downloads = Cardinality(files)]]
    /\ UNCHANGED <<u_marker, u_local, u_remote, p_run, p_out,
                   cfgVars, svcVars, repoVars, clientVars>>

\* executeUpdateIfNeeded: one round of the loop of updateFiles; the map of
\* downloaded files is ranged over in any order.
UpdaterApply(p, f) ==
    /\ u_run[p].pc = "apply"
    /\ f \in u_run[p].pending
    /\ LET r == u_run[p]
           o == updateFile(r.desc, u_local, f, r.downloaded[f])
       IN  /\ u_local' = [u_local EXCEPT ![f] = o.file]
           /\ u_run' = [u_run EXCEPT ![p] =
                  IF o.err # NoErr THEN Fail(@, o.err)
                  ELSE [@ EXCEPT
                          !.pending = @ \ {f},
                          !.pc = IF r.pending = {f} THEN "start" ELSE "apply",
                          !.log.applied = @ \cup {f}]]
    /\ UNCHANGED <<u_marker, u_remote, p_run, p_out,
                   cfgVars, svcVars, repoVars, clientVars>>

\* runner.Run: startRequiredExecutables.
UpdaterStartExecutable(p, ok) ==
    /\ u_run[p].pc = "start"
    /\ LET r == u_run[p]
           x == roleExecutable(r.desc, UpdateRole)
       IN  u_run' = [u_run EXCEPT ![p] =
               IF x.err # NoErr THEN Fail(@, x.err)
               ELSE [@ EXCEPT !.pc = "cleanup",
                              !.log.starts = @ + 1,
                              !.err = IF ok THEN NoErr ELSE ErrEnv]]
    /\ UNCHANGED <<u_marker, u_local, u_remote, p_run, p_out,
                   cfgVars, svcVars, repoVars, clientVars>>

\* updater.Run: the deferred runner.cleanup, then the return.
UpdaterCleanup(p) ==
    /\ u_run[p].pc = "cleanup"
    /\ u_marker' = "none"
    /\ u_run' = [u_run EXCEPT ![p].pc = "returned"]
    /\ UNCHANGED <<u_local, u_remote, p_run, p_out,
                   cfgVars, svcVars, repoVars, clientVars>>

\* markerLifetime passes since the marker was written.
MarkerAges ==
    /\ u_marker = "fresh"
    /\ u_marker' = "stale"
    /\ UNCHANGED <<u_local, u_remote, u_run, p_run, p_out,
                   cfgVars, svcVars, repoVars, clientVars>>

\* --------------------------------------------- internal/service/packager
\* version.Short() of the packager's build.
PackagerVersion == RemoteVersion
SettingsFile == File("settings")

IdlePackager == [pc |-> "idle", err |-> NoErr, passed |-> FALSE, reached |-> FALSE]

\* packager.fillDescription: [desc, err]. Roles and executables are copied
\* from the updater's tables, and every file of FilesWithChecksum is
\* hashed if it exists.
fillDescription(fs) ==
    IF \E f \in Range(FilesWithChecksum) : fs[f] = Missing
    THEN [desc |-> NULL, err |-> ErrNotFound]
    ELSE [desc |->
            [VersionNumber |-> PackagerVersion,
             Files |-> [f \in Range(FilesWithChecksum) |->
                          EncodeToString(GetFileChecksum(fs[f]))],
             Roles |-> AllowedUserRoles,
             Executables |-> ExecutablesByUserRoles],
          err |-> NoErr]

\* alarm-packager is started: packager.Run validates its configuration.
PackagerStart(valid) ==
    /\ p_run.pc = "idle"
    /\ p_run' = IF valid THEN [p_run EXCEPT !.pc = "check"]
                ELSE [p_run EXCEPT !.pc = "returned", !.err = ErrInvalidSocket]
    /\ UNCHANGED <<u_marker, u_local, u_remote, u_run, p_out,
                   cfgVars, svcVars, repoVars, clientVars>>

\* newPackager: the marker check.
PackagerCheck(ok) ==
    /\ p_run.pc = "check"
    /\ LET c == IsUpdaterRunningNow(u_marker, ok)
       IN  /\ u_marker' = c.marker
           /\ u_run' = IF c.kills THEN KillOthers(u_run, "packager") ELSE u_run
           /\ p_run' = IF c.running
                       THEN [p_run EXCEPT !.pc = "returned",
                                          !.err = ErrUpdaterAlreadyRunning]
                       ELSE [p_run EXCEPT !.pc = "save", !.passed = TRUE]
    /\ UNCHANGED <<u_local, u_remote, p_out,
                   cfgVars, svcVars, repoVars, clientVars>>

\* newPackager: config.Save, to the default settings file or to the file
\* of --config.
PackagerSave(ok, default) ==
    /\ p_run.pc = "save"
    /\ p_run' = IF ok THEN [p_run EXCEPT !.pc = "reach"]
                ELSE [p_run EXCEPT !.pc = "returned", !.err = ErrWrite]
    /\ u_local' = IF ok /\ default
                  THEN [u_local EXCEPT ![DefaultConfigFilename] = SettingsFile]
                  ELSE u_local
    /\ UNCHANGED <<u_marker, u_remote, u_run, p_out,
                   cfgVars, svcVars, repoVars, clientVars>>

\* newPackager: ensureServerReachable.
PackagerReach(ok) ==
    /\ p_run.pc = "reach"
    /\ p_run' = IF ok THEN [p_run EXCEPT !.pc = "run", !.reached = TRUE]
                ELSE [p_run EXCEPT !.pc = "returned", !.err = ErrRpc]
    /\ UNCHANGED <<u_marker, u_local, u_remote, u_run, p_out,
                   cfgVars, svcVars, repoVars, clientVars>>

\* packager.Run of the packager built: fillDescription, saveDescription.
PackagerRun(ok) ==
    /\ p_run.pc = "run"
    /\ LET d == fillDescription(u_local)
       IN  IF d.err # NoErr
           THEN /\ p_run' = [p_run EXCEPT !.pc = "returned", !.err = d.err]
                /\ p_out' = p_out
           ELSE IF ~ok
           THEN /\ p_run' = [p_run EXCEPT !.pc = "returned", !.err = ErrWrite]
                /\ p_out' = p_out
           ELSE /\ p_run' = [p_run EXCEPT !.pc = "returned"]
                /\ p_out' = MarshalDesc(d.desc)
    /\ UNCHANGED <<u_marker, u_local, u_remote, u_run,
                   cfgVars, svcVars, repoVars, clientVars>>

\* ------------------------------------------ the updater and the packager
SampleFiles == {CheckerFile, DefaultConfigFilename}

\* Checksum texts a manifest may carry for a file: of either content, the
\* empty text, and a text that is no base64.
ChecksumTexts ==
    {EncodeToString(GetFileChecksum(c)) : c \in FileContents}
        \cup {EncodeToString(EmptyBytes), BadBase64}

NoRoles == [r \in {} |-> <<>>]
SampleRoles ==
    {NoRoles, [client |-> <<CheckerFile>>],
     [client |-> <<CheckerFile, DefaultConfigFilename>>]}
SampleExecutables == {[r \in {} |-> ""], [client |-> CheckerFile]}

\* Manifests an update folder may hold.
SampleDescriptions ==
    {[VersionNumber |-> RemoteVersion, Files |-> files, Roles |-> roles,
      Executables |-> execs] :
        files \in UNION {[d -> ChecksumTexts] : d \in SUBSET SampleFiles},
        roles \in SampleRoles, execs \in SampleExecutables}

\* Installation directories and update folders in which only the sample
\* files vary.
Folder(a, b) ==
    [f \in FileNames |-> IF f = CheckerFile THEN a
                         ELSE IF f = DefaultConfigFilename THEN b ELSE Missing]
SampleFolders ==
    {Folder(a, b) : a \in FileContents \cup {Missing},
                    b \in FileContents \cup {Missing}}

\* One updater on an installation, with any manifest in the update folder.
UpdateInit ==
    /\ ServerInit /\ ButtonOff /\ CheckerOff /\ ConfigOff
    /\ u_marker = "none"
    /\ u_local \in SampleFolders
    /\ u_remote \in
          {[manifest |-> m, blobs |-> b] :
              m \in {Missing} \cup {MarshalDesc(d) : d \in SampleDescriptions},
              b \in SampleFolders}
    /\ u_run = [p \in Updaters |-> IdleUpdater]
    /\ p_run = IdlePackager
    /\ p_out = NULL

UpdaterNext(p) ==
    \/ UpdaterStart(p)
    \/ \E ok \in BOOLEAN : UpdaterCheck(p, ok)
    \/ \E ok \in BOOLEAN : UpdaterCreate(p, ok)
    \/ \E ok \in BOOLEAN : UpdaterLoad(p, ok)
    \/ \E ok \in BOOLEAN : UpdaterReach(p, ok)
    \/ \E ok \in BOOLEAN : UpdaterTerminate(p, ok)
    \/ \E version \in LocalVersions, ok \in BOOLEAN : UpdaterDetect(p, version, ok)
    \/ \E ok \in BOOLEAN : UpdaterFetch(p, ok)
    \/ UpdaterDecide(p)
    \/ \E ok \in BOOLEAN : UpdaterDownload(p, ok)
    \/ \E f \in FileNames : UpdaterApply(p, f)
    \/ \E ok \in BOOLEAN : UpdaterStartExecutable(p, ok)
    \/ UpdaterCleanup(p)

UpdateSpec == UpdateInit /\ [][UpdaterNext("u1") \/ MarkerAges]_vars

PackagerNext ==
    \/ \E valid \in BOOLEAN : PackagerStart(valid)
    \/ \E ok \in BOOLEAN : PackagerCheck(ok)
    \/ \E ok, default \in BOOLEAN : PackagerSave(ok, default)
    \/ \E ok \in BOOLEAN : PackagerReach(ok)
    \/ \E ok \in BOOLEAN : PackagerRun(ok)

\* The release directory of the packager: any of the files may be missing,
\* and a marker may lie there.
PackagerInit ==
    /\ ServerInit /\ ButtonOff /\ CheckerOff /\ ConfigOff
    /\ u_marker \in {"none", "fresh", "stale"}
    /\ u_local \in [FileNames -> {File("v1"), Missing}]
    /\ u_remote = [manifest |-> Missing, blobs |-> Folder(Missing, Missing)]
    /\ u_run = [p \in Updaters |-> IdleUpdater]
    /\ p_run = IdlePackager
    /\ p_out = NULL

PackagerSpec == PackagerInit /\ [][PackagerNext \/ MarkerAges]_vars

\* Two updaters and a packager started in one directory whose update
\* folder holds a release of the checker.
CheckerRelease ==
    [VersionNumber |-> RemoteVersion,
     Files |-> [f \in {CheckerFile} |-> EncodeToString(GetFileChecksum(File("v2")))],
     Roles |-> [client |-> <<CheckerFile>>],
     Executables |-> [client |-> CheckerFile]]

MarkerInit ==
    /\ ServerInit /\ ButtonOff /\ CheckerOff /\ ConfigOff
    /\ u_marker = "none"
    /\ u_local = [f \in FileNames |-> File("v1")]
    /\ u_remote = [manifest |-> MarshalDesc(CheckerRelease),
                   blobs |-> Folder(File("v2"), Missing)]
    /\ u_run = [p \in Updaters |-> IdleUpdater]
    /\ p_run = IdlePackager
    /\ p_out = NULL

MarkerSpec ==
    MarkerInit /\ [][(\E p \in Updaters : UpdaterNext(p)) \/ PackagerNext
                     \/ MarkerAges]_vars

\* ---------------------------------------------------------------- update
\* An updater that created the marker and has not finished.
HoldsMarker(p) == u_run[p].created /\ u_run[p].pc \in PastCheck

\* C22: two update runs never execute in parallel: while an updater that
\* created the marker has not finished and the marker is younger than its
\* lifetime, every other updater and every packager that makes the marker
\* check refuses to run; and two updaters never both pass the marker check
\* and run the update workflow.
C22_NoParallelUpdateRuns ==
    /\ [](~(\A p \in Updaters : u_run[p].pc \in InWorkflow))
    /\ [][\A p \in Updaters :
            HoldsMarker(p) /\ u_marker = "fresh" =>
               /\ \A q \in Updaters \ {p} :
                     u_run[q].pc = "check" /\ u_run'[q].pc \notin {"check", "killed"}
                        => /\ u_run'[q].pc = "returned"
                           /\ u_run'[q].err = ErrUpdaterAlreadyRunning
               /\ p_run.pc = "check" /\ p_run'.pc # "check"
                     => /\ p_run'.pc = "returned"
                        /\ p_run'.err = ErrUpdaterAlreadyRunning]_vars


\* The manifest records for file f the SHA-512 checksum of data.
Recorded(desc, f, data) ==
    /\ f \in DOMAIN desc.Files
    /\ desc.Files[f] = EncodeToString(Sum512(data))

\* C23: the updater replaces a local file only with downloaded content
\* whose SHA-512 checksum is the one the manifest records for the file;
\* content with another checksum, and a file without checksum entry, is
\* never applied (the file stays as it was, or is left empty if it did not
\* exist) and makes the run fail with that error.
C23_OnlyVerifiedContentApplied ==
    /\ [][\A p \in Updaters :
         /\ \A f \in FileNames :
               UpdaterApply(p, f) =>
                  IF Recorded(u_run[p].desc, f, u_run[p].downloaded[f])
                  THEN /\ u_local'[f] = u_run[p].downloaded[f]
                       /\ u_run'[p].err = NoErr
                  ELSE /\ u_local'[f] \in {u_local[f], EmptyFile}
                       /\ u_local[f] # Missing => u_local'[f] = u_local[f]
                       /\ u_run'[p].pc = "cleanup"
                       /\ u_run'[p].err \in {ErrNoChecksum, ErrChecksumMismatch,
                                             "illegal base64 data"}
         /\ UpdaterCleanup(p) => u_run'[p].err = u_run[p].err]_vars
    /\ [][u_local' # u_local =>
            \E p \in Updaters, f \in FileNames : UpdaterApply(p, f)]_vars

\* A run that applied one file and then failed on downloaded content with
\* another checksum than the manifest's.
C23_Witness ==
    /\ u_run["u1"].pc = "returned"
    /\ u_run["u1"].err = ErrChecksumMismatch
    /\ u_run["u1"].log.applied # {}


RoleFiles(r) == Range(r.desc.Roles[UpdateRole])

\* Every step before the start of the executable has succeeded for the
\* updater r on the installation fs.
AllStepsDone(r, fs) ==
    /\ r.err = NoErr
    /\ r.log.terminated /\ r.log.fetched /\ r.log.validated
    /\ IF r.needed
       THEN /\ r.log.downloads = Cardinality(RoleFiles(r))
            /\ r.log.applied = RoleFiles(r)
            /\ \A f \in RoleFiles(r) : /\ fs[f] = r.downloaded[f]
                                       /\ Recorded(r.desc, f, fs[f])
       ELSE r.log.downloads = 0 /\ r.log.applied = {}

\* C24: the updater attempts to start the role's executable only after
\* process termination, manifest download, checksum validation and, when
\* an update is needed, download and application of every file of the role
\* have succeeded; if the start fails, Run returns an error and the files
\* applied stay in place.
C24_StartOnlyAfterAllSteps ==
    [][\A p \in Updaters :
         /\ (\E ok \in BOOLEAN : UpdaterStartExecutable(p, ok))
               => /\ AllStepsDone(u_run[p], u_local)
                  /\ u_run'[p].pc = "cleanup"
                  /\ u_local' = u_local
         /\ u_run'[p].log.starts # u_run[p].log.starts
               => /\ \E ok \in BOOLEAN : UpdaterStartExecutable(p, ok)
                  /\ u_run'[p].log.starts = 1
         /\ UpdaterCleanup(p)
               => /\ u_run'[p].pc = "returned"
                  /\ u_run'[p].err = u_run[p].err
                  /\ u_local' = u_local]_vars

\* An update was applied, the start of the executable failed, and Run has
\* returned the error.
C24_Witness ==
    /\ u_run["u1"].pc = "returned"
    /\ u_run["u1"].log.starts = 1
    /\ u_run["u1"].err = ErrEnv
    /\ u_run["u1"].log.applied = SampleFiles
    /\ \A f \in SampleFiles : u_local[f] = u_remote.blobs[f]


\* A file of the role is missing locally or has a local checksum different
\* from the manifest's.
RoleFileDiffers(r, fs) ==
    \E f \in RoleFiles(r) :
        \/ fs[f] = Missing
        \/ /\ f \in DOMAIN r.desc.Files
           /\ DecodeString(r.desc.Files[f]).err = NoErr
           /\ GetFileChecksum(fs[f]) # DecodeString(r.desc.Files[f]).bytes

C27_MarkerRemovedOnReturn ==
    \A p \in Updaters :
        u_run[p].pc = "returned" /\ u_run[p].created => u_marker = "none"


\* A manifest in which every file of every role has a checksum entry and
\* every role's executable is one of the role's files.
SelfConsistent(d) ==
    /\ \A role \in DOMAIN d.Roles :
          \A f \in Range(d.Roles[role]) : f \in DOMAIN d.Files
    /\ DOMAIN d.Executables = DOMAIN d.Roles
    /\ \A role \in DOMAIN d.Executables :
          d.Executables[role] \in Range(d.Roles[role])

\* C30: every manifest the packager writes is self-consistent; it is
\* written only if the marker check found no updater running, the server
\* was reached and every file to be checksummed exists; and validating it
\* in the updater, for the roles client and server and on any installation
\* directory, never fails with a missing role or a missing checksum.
C30_PackagerManifestConsistent ==
    /\ [](p_out # NULL =>
            /\ SelfConsistent(UnmarshalDesc(p_out))
            /\ \A role \in {"client", "server"} :
                  \A fs \in [FileNames -> {Missing, File("v1")}] :
                      validateChecksum(UnmarshalDesc(p_out), role, fs).err
                          \notin {ErrEmptyDescription, ErrNoRoleFiles, ErrNoChecksum})
    /\ [][p_out' # p_out =>
            /\ p_run.passed /\ p_run.reached
            /\ \A f \in Range(FilesWithChecksum) : u_local[f] # Missing
            /\ p_run'.pc = "returned" /\ p_run'.err = NoErr]_vars

\* The packager ran to its end and wrote a manifest.
C30_Witness ==
    /\ p_out # NULL
    /\ p_run.pc = "returned"
    /\ p_run.err = NoErr
    /\ \A f \in FileNames : f \in DOMAIN UnmarshalDesc(p_out).Files


\* The options of a button client that asks for what the request r asks.
OptionsOf(r) == [DesiredState |-> GetIsEnabled(r), Debug |-> TRUE]

\* C28: every successful SetAlarmState response carries the is_enabled that
\* the call requested and the call's actor, also when other SetAlarmState
\* calls run at the same time; so the button client's attempt counts every
\* successful response as a confirmation and returns done, without retry.
C28_SetResponseMatchesRequest ==
    \A p \in Procs :
        (SetDone(p) /\ resp[p].code = OK) =>
            /\ resp[p].msg # NULL
            /\ resp[p].msg.IsEnabled = GetIsEnabled(req[p])
            /\ resp[p].msg.LastActor = GetActor(req[p])
            /\ Confirmed(resp[p], GetIsEnabled(req[p]))
            /\ AttemptOnAnswer(resp[p], OptionsOf(req[p]), TRUE)
                   = [done |-> TRUE, err |-> NoErr]

\* C28 witness: a SetAlarmState that waited for the lock while another one
\* persisted and returned has answered, while a further call with the other
\* value is waiting for the lock.
C28_Witness ==
    \E p \in Procs : \E q \in Procs \ {p} :
        /\ SetDone(p) /\ resp[p].code = OK /\ after[p]
        /\ pc[q] = "set_lock"
        /\ GetIsEnabled(req[q]) # GetIsEnabled(req[p])
        /\ resp[p].msg.IsEnabled = GetIsEnabled(req[p])


\* History: power.Shutdown has failed to start the command at least once.
ShutdownHasFailed == k_log.shutdowns > k_log.started

\* C29: when power.Shutdown fails to start the command, the checker stays
\* in its loop, records no started shutdown and logs the failure; on every
\* later poll whose response reports the alarm enabled it calls
\* power.Shutdown again; and it leaves the loop only once the command has
\* started or its context is canceled.
C29_FailedShutdownRetried ==
    /\ [][CheckerAnswer(FALSE) =>
            /\ k_pc' = "select"
            /\ k_ret' = NotReturned
            /\ k_log'.started = k_log.started
            /\ k_log'.failures = Count(k_log.failures)]_vars
    /\ [][(/\ ShutdownHasFailed /\ ~k_debug
           /\ k_pc = "answered" /\ k_resp.msg.IsEnabled
           /\ \E shutdownOk \in BOOLEAN : CheckerAnswer(shutdownOk)) =>
            /\ k_log'.shutdowns = Count(k_log.shutdowns)
            /\ k_pc' = "returned" =>
                  (k_ret' = NoErr /\ k_log'.started = Count(k_log.started))]_vars
    /\ []((ShutdownHasFailed /\ k_pc = "returned") =>
            (k_ctx = "canceled" \/ k_log.started = 1))

\* C29 witness: the shutdown command failed to start on two polls and the
\* checker, not canceled, has the answer of a further poll that reports the
\* alarm enabled.
C29_Witness ==
    /\ ~k_debug /\ k_log.shutdowns >= 2 /\ k_log.started = 0
    /\ k_log.failures >= 2
    /\ k_pc = "answered" /\ k_ctx = "live"
    /\ k_resp.code = OK /\ k_resp.msg.IsEnabled

====
